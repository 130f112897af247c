----------------------------- MODULE DhcpProofs -----------------------------
(***************************************************************************)
(* The DHCP server's table for every number of stations and entries, every *)
(* network mask and every timeout.                                         *)
(***************************************************************************)
EXTENDS DhcpServer, WellFoundedInduction, TLAPS

(* A set of naturals that is not empty has a least element. *)
LEMMA LeastExists ==
  ASSUME NEW S, S \subseteq Nat, S # {}
  PROVE  \E x \in S : \A y \in S : x <= y
  <1>1. \E x \in S : \A y \in S : ~ (<<y, x>> \in OpToRel(<, Nat))
    BY NatLessThanWellFounded, WFMin
  <1>2. \A x, y \in Nat : ~ (<<y, x>> \in OpToRel(<, Nat)) => x <= y
    BY DEF OpToRel
  <1> QED
    BY <1>1, <1>2

(* A set of entries that is not empty has a greatest element. *)
LEMMA GreatestExists ==
  ASSUME NEW S, S \subseteq Entries, S # {}
  PROVE  \E x \in S : \A y \in S : y <= x
  <1> DEFINE T == {NumEntries - x : x \in S}
  <1>0. NumEntries \in Nat
    BY DhcpAssumption
  <1>1. PICK e \in S : TRUE
    OBVIOUS
  <1>2. NumEntries - e \in T
    BY <1>1
  <1>3. \A x \in S : NumEntries - x \in Nat
    BY <1>0 DEF Entries
  <1>4. T \subseteq Nat
    BY <1>3
  <1>5. PICK t \in T : \A u \in T : t <= u
    BY <1>2, <1>4, LeastExists
  <1>6. PICK x \in S : t = NumEntries - x
    OBVIOUS
  <1>7. \A y \in S : NumEntries - x <= NumEntries - y
    BY <1>5, <1>6
  <1> QED
    BY <1>0, <1>7 DEF Entries

(* The searches of _ClientTableLookup find an entry of the set they search, *)
(* and find one when there is one.                                          *)
LEMMA Found ==
  ASSUME NEW S, S \subseteq Entries
  PROVE  /\ FirstIn(S) \in S \cup {0}
         /\ LastIn(S) \in S \cup {0}
         /\ S # {} => LastIn(S) \in S /\ LastIn(S) # 0
  <1>1. FirstIn(S) \in S \cup {0}
    <2>1. S \subseteq Nat
      BY DEF Entries
    <2> QED
      BY <2>1, LeastExists DEF FirstIn
  <1>2. S # {} => LastIn(S) \in S
    BY GreatestExists DEF LastIn
  <1>3. S = {} => LastIn(S) = 0
    BY DEF LastIn
  <1>4. 0 \notin S
    BY DEF Entries
  <1> QED
    BY <1>1, <1>2, <1>3, <1>4

(* The client's own entry is in use and carries its MAC address; there is   *)
(* none when no such entry is found.                                        *)
LEMMA MyClientFacts ==
  ASSUME NEW mac
  PROVE  /\ MyClient(mac) # 0 => /\ MyClient(mac) \in Entries
                                 /\ Clients[MyClient(mac)].State # "IDLE"
                                 /\ Clients[MyClient(mac)].MacAddr = mac
         /\ MyClient(mac) = 0 =>
              \A i \in Entries : Clients[i].State # "IDLE" => Clients[i].MacAddr # mac
  <1> DEFINE S == {i \in Entries : ~Idle(i) /\ Clients[i].MacAddr = mac}
  <1>1. S \subseteq Entries
    OBVIOUS
  <1>2. MyClient(mac) = LastIn(S)
    BY DEF MyClient
  <1>3. \A i \in Entries : i # 0
    BY DEF Entries
  <1>4. LastIn(S) \in S \cup {0} /\ (S # {} => LastIn(S) \in S)
    BY <1>1, Found
  <1>5. \A i \in S : i \in Entries /\ Clients[i].State # "IDLE" /\ Clients[i].MacAddr = mac
    BY DEF Idle
  <1>6. \A i \in Entries : Clients[i].State # "IDLE" /\ Clients[i].MacAddr = mac => i \in S
    BY DEF Idle
  <1> HIDE DEF S
  <1> QED
    BY <1>1, <1>2, <1>3, <1>4, <1>5, <1>6

(* The entry with the address a client asks for is idle. *)
LEMMA ReqClientFacts ==
  ASSUME NEW ip
  PROVE  ReqClient(ip) # 0 => /\ ReqClient(ip) \in Entries
                              /\ Clients[ReqClient(ip)].State = "IDLE"
                              /\ IpAddr(ReqClient(ip)) = ip
  <1> DEFINE S == {i \in Entries : Idle(i) /\ IpAddr(i) = ip}
  <1>1. FirstIn(S) \in S \cup {0}
    BY Found
  <1>2. \A i \in S : i \in Entries /\ Clients[i].State = "IDLE" /\ IpAddr(i) = ip
    BY DEF Idle
  <1>3. ReqClient(ip) = FirstIn(S)
    BY DEF ReqClient
  <1> HIDE DEF S
  <1> QED
    BY <1>1, <1>2, <1>3

(* A new negotiation gets an idle entry. *)
LEMMA NewEntryFacts ==
  ASSUME NEW mac, NEW ip
  PROVE  NewEntry(mac, ip) # 0 => /\ NewEntry(mac, ip) \in Entries
                                  /\ Clients[NewEntry(mac, ip)].State = "IDLE"
  <1> DEFINE Q(e) == e # 0 => e \in Entries /\ Clients[e].State = "IDLE"
  <1>1. Q(MyHistoryClient(mac))
    <2> DEFINE S == {i \in Entries : Idle(i) /\ Clients[i].MacAddr = mac}
    <2>1. FirstIn(S) \in S \cup {0}
      BY Found
    <2> QED
      BY <2>1 DEF MyHistoryClient, Idle
  <1>2. Q(FreeClient)
    <2> DEFINE S == {i \in Entries : Idle(i) /\ Clients[i].MacAddr = NoMac}
    <2>1. FirstIn(S) \in S \cup {0}
      BY Found
    <2> QED
      BY <2>1 DEF FreeClient, Idle
  <1>3. Q(HistoryClient)
    <2> DEFINE S == {i \in Entries : Idle(i) /\ Clients[i].MacAddr # NoMac}
    <2>1. FirstIn(S) \in S \cup {0}
      BY Found
    <2> QED
      BY <2>1 DEF HistoryClient, Idle
  <1>4. Q(ReqClient(ip))
    BY ReqClientFacts
  <1> QED
    BY <1>1, <1>2, <1>3, <1>4 DEF NewEntry, FirstNonNull

(* No entry has the address 0. *)
LEMMA IpAddrType ==
  ASSUME NEW i \in Entries
  PROVE  IpAddr(i) \in Nat /\ IpAddr(i) # 0
  <1>1. HostMask \in Nat /\ HostMask # 0 /\ ServerHost \in Nat /\ i \in Nat /\ i >= 1
    BY DhcpAssumption DEF Entries
  <1>2. \A n \in Nat : InHosts(n) \in Nat /\ InHosts(n) # 0
    BY <1>1 DEF InHosts
  <1>3. StartHost \in Nat
    BY <1>1, <1>2 DEF StartHost
  <1>4. StartHost + (i - 1) \in Nat
    BY <1>1, <1>3
  <1> QED
    BY <1>2, <1>4 DEF IpAddr

-----------------------------------------------------------------------------
(* A fresh entry, and a zeroed one, has the type of an entry and is idle.   *)
LEMMA FreshEntryType ==
  \A c \in {FreshEntry, ZeroedEntry} : c \in EntryType /\ c.State = "IDLE"
  <1>1. LeaseTime \in 0 .. LeaseTime /\ 0 \in 0 .. LeaseTime /\ 0 \in 0 .. Timeout
    BY DhcpAssumption
  <1> QED
    BY <1>1 DEF FreshEntry, ZeroedEntry, EntryType

(* The initial state satisfies the inductive invariant. *)
LEMMA InitIInv == Init => IInv
  <1> SUFFICES ASSUME Init PROVE IInv
    OBVIOUS
  <1> USE DEF Init, Idle, Bound
  <1>1. TypeOK
    <2>1. Clients \in [Entries -> EntryType] /\ leased \in [Stations -> Nat]
      BY FreshEntryType
    <2>2. starts \in 0 .. MaxStarts
      BY DhcpAssumption
    <2> QED
      BY <2>1, <2>2 DEF TypeOK
  <1>2. InUseHasClient /\ OneEntryPerClient /\ NoHistoryWhenBound
    BY FreshEntryType DEF InUseHasClient, OneEntryPerClient, NoHistoryWhenBound
  <1>3. HolderIsPresent /\ LeaseHonoured
    BY DEF HolderIsPresent, LeaseHonoured
  <1> QED
    BY <1>1, <1>2, <1>3 DEF IInv

(* Starting and stopping the server empties the table, and nobody holds an  *)
(* address then.                                                            *)
LEMMA StartStopStep ==
  ASSUME IInv, DHCPS_Start \/ DHCPS_Stop
  PROVE  IInv'
  <1>1. PICK c \in {FreshEntry, ZeroedEntry} : Clients' = [i \in Entries |-> c]
    BY DEF DHCPS_Start, DHCPS_Stop
  <1>2. c \in EntryType /\ c.State = "IDLE"
    BY FreshEntryType
  <1>3. TypeOK'
    <2>1. Clients' \in [Entries -> EntryType]
      BY <1>1, <1>2
    <2>2. Enable' \in BOOLEAN /\ ticking' \in BOOLEAN
      BY DEF IInv, TypeOK, DHCPS_Start, DHCPS_Stop
    <2>3. starts' \in 0 .. MaxStarts
      BY DhcpAssumption DEF IInv, TypeOK, DHCPS_Start, DHCPS_Stop
    <2>4. leased' \in [Stations -> Nat] /\ present' \subseteq Stations
      BY DEF IInv, TypeOK, DHCPS_Start, DHCPS_Stop
    <2>5. reply' \in {"none", "OFFER", "ACK", "NAK"}
      BY DEF IInv, TypeOK, DHCPS_Start, DHCPS_Stop
    <2> QED
      BY <2>1, <2>2, <2>3, <2>4, <2>5 DEF TypeOK
  <1>4. \A m \in Stations : leased'[m] = 0
    BY DEF IInv, TypeOK, HolderIsPresent, DHCPS_Start, DHCPS_Stop
  <1>5. \A i \in Entries : Clients'[i].State = "IDLE"
    BY <1>1, <1>2
  <1> QED
    BY <1>3, <1>4, <1>5
    DEF IInv, InUseHasClient, HolderIsPresent, OneEntryPerClient, NoHistoryWhenBound,
        LeaseHonoured, Idle, Bound

(* The tick takes entries away only from negotiations that have run out of  *)
(* time, from leases that are over and from stations that are gone.         *)
LEMMA TickStep ==
  ASSUME IInv, DhcpTick
  PROVE  IInv'
  <1> USE DEF IInv
  <1>1. \A i \in Entries : Clients'[i] = Ticked(Clients[i])
    BY DEF DhcpTick
  <1>2. \A i \in Entries : Clients[i] \in EntryType
    BY DEF TypeOK
  <1>3. \A c \in EntryType : Ticked(c) \in EntryType
    BY DhcpAssumption DEF EntryType, Ticked, Expired, LeaseOver, Gone, Down
  <1>4. \A i \in Entries :
          /\ Clients'[i].State # "IDLE" => /\ Clients'[i].State = Clients[i].State
                                           /\ Clients'[i].MacAddr = Clients[i].MacAddr
          /\ Clients'[i].MacAddr \in {NoMac, Clients[i].MacAddr}
          /\ Clients[i].State = "REQUEST" /\ Clients'[i].State = "IDLE"
               => Clients'[i].MacAddr = NoMac
          /\ Clients[i].State = "BIND" => Clients'[i].MacAddr = Clients[i].MacAddr
          /\ Clients[i].State = "BIND" /\ Clients'[i].State = "IDLE"
               => LeaseOver(Clients[i]) \/ Clients[i].MacAddr \notin present
    <2> SUFFICES ASSUME NEW i \in Entries
                 PROVE  LET c == Clients[i]
                            d == Ticked(c)
                        IN  /\ d.State # "IDLE" => d.State = c.State /\ d.MacAddr = c.MacAddr
                            /\ d.MacAddr \in {NoMac, c.MacAddr}
                            /\ c.State = "REQUEST" /\ d.State = "IDLE" => d.MacAddr = NoMac
                            /\ c.State = "BIND" => d.MacAddr = c.MacAddr
                            /\ c.State = "BIND" /\ d.State = "IDLE"
                                 => LeaseOver(c) \/ c.MacAddr \notin present
      BY <1>1
    <2> DEFINE c == Clients[i]
    <2>1. /\ Ticked(c).State = IF Expired(c) \/ LeaseOver(c) \/ Gone(c) THEN "IDLE" ELSE c.State
          /\ Ticked(c).MacAddr = IF Expired(c) THEN NoMac ELSE c.MacAddr
      BY DEF Ticked
    <2>2. /\ Expired(c) => c.State = "REQUEST"
          /\ LeaseOver(c) => c.State = "BIND"
          /\ Gone(c) => c.State = "BIND" /\ c.MacAddr \notin present
      BY DEF Expired, LeaseOver, Gone
    <2> HIDE DEF c
    <2> QED
      BY <2>1, <2>2 DEF c
  <1>5. TypeOK'
    <2>1. Clients' \in [Entries -> EntryType]
      BY <1>2, <1>3 DEF DhcpTick
    <2>2. leased' \in [Stations -> Nat]
      BY DEF DhcpTick, TypeOK
    <2> QED
      BY <2>1, <2>2 DEF DhcpTick, TypeOK
  <1>6. \A i \in Entries : Clients[i].State \in {"IDLE", "REQUEST", "BIND"}
    BY <1>2 DEF EntryType
  <1>7. InUseHasClient' /\ OneEntryPerClient'
    BY <1>4 DEF InUseHasClient, OneEntryPerClient, Idle
  <1>8. NoHistoryWhenBound'
    <2> SUFFICES ASSUME NEW i \in Entries, NEW j \in Entries,
                        Clients'[i].State = "BIND", Clients'[j].State = "IDLE"
                 PROVE  Clients'[j].MacAddr # Clients'[i].MacAddr
      BY DEF NoHistoryWhenBound, Bound, Idle
    <2>1. /\ Clients[i].State = "BIND" /\ Clients'[i].MacAddr = Clients[i].MacAddr
          /\ Clients[i].MacAddr \in Stations
      BY <1>4 DEF InUseHasClient, Idle
    <2>2. Clients'[i].MacAddr # NoMac
      BY <2>1, DhcpAssumption
    <2>3. CASE Clients[j].State = "IDLE"
      BY <2>1, <2>2, <2>3, <1>4 DEF NoHistoryWhenBound, Bound, Idle
    <2>4. CASE Clients[j].State = "REQUEST"
      BY <2>2, <2>4, <1>4
    <2>5. CASE Clients[j].State = "BIND"
      BY <2>1, <2>5, <1>4 DEF OneEntryPerClient, Idle
    <2> QED
      BY <2>3, <2>4, <2>5, <1>6
  <1>9. \A m \in Stations : leased'[m] # 0 =>
          /\ leased'[m] = leased[m]
          /\ \A i \in Entries : ~(LeaseOver(Clients[i]) /\ Clients[i].MacAddr = m)
    BY DEF DhcpTick, TypeOK
  <1>10. HolderIsPresent'
    BY <1>9 DEF HolderIsPresent, DhcpTick
  <1>11. LeaseHonoured'
    <2> SUFFICES ASSUME NEW m \in Stations, leased'[m] # 0
                 PROVE  \E i \in Entries : /\ Clients'[i].State = "BIND"
                                           /\ Clients'[i].MacAddr = m
                                           /\ IpAddr(i) = leased'[m]
      BY DEF LeaseHonoured, Bound
    <2>1. PICK i \in Entries : /\ Clients[i].State = "BIND" /\ Clients[i].MacAddr = m
                               /\ IpAddr(i) = leased[m]
      BY <1>9 DEF LeaseHonoured, Bound
    <2>2. m \in present
      BY <1>9 DEF HolderIsPresent
    <2>3. Clients'[i].State # "IDLE"
      BY <1>4, <1>9, <2>1, <2>2
    <2> QED
      BY <1>4, <1>9, <2>1, <2>3
  <1> QED
    BY <1>5, <1>7, <1>8, <1>10, <1>11

(* Steps that leave the server and its table alone. *)
LEMMA OutsideStep ==
  ASSUME IInv, NEW mac \in Stations,
         OtherMessage(mac) \/ StationJoins(mac) \/ StationLeaves(mac)
  PROVE  IInv'
  <1> USE DEF IInv
  <1>1. Clients' = Clients
    BY DEF OtherMessage, Nak, StationJoins, StationLeaves
  <1>2. leased \in [Stations -> Nat] /\ present \subseteq Stations
    BY DEF TypeOK
  <1>3. \A m \in Stations : leased'[m] # 0 => /\ leased'[m] = leased[m]
                                              /\ Enable' /\ m \in present'
    <2>1. CASE OtherMessage(mac)
      BY <2>1, <1>2 DEF OtherMessage, Nak, Believes, HolderIsPresent
    <2>2. CASE StationJoins(mac)
      BY <2>2, <1>2 DEF StationJoins, HolderIsPresent
    <2>3. CASE StationLeaves(mac)
      BY <2>3, <1>2 DEF StationLeaves, HolderIsPresent
    <2> QED
      BY <2>1, <2>2, <2>3
  <1>4. TypeOK'
    <2>1. leased' \in [Stations -> Nat] /\ present' \subseteq Stations
      BY <1>2 DEF OtherMessage, Nak, Believes, StationJoins, StationLeaves
    <2>2. reply' \in {"none", "OFFER", "ACK", "NAK"}
      BY DEF TypeOK, OtherMessage, Nak, StationJoins, StationLeaves
    <2> QED
      BY <2>1, <2>2 DEF TypeOK, OtherMessage, Nak, StationJoins, StationLeaves
  <1>5. InUseHasClient' /\ OneEntryPerClient' /\ NoHistoryWhenBound'
    BY <1>1 DEF InUseHasClient, OneEntryPerClient, NoHistoryWhenBound, Idle, Bound
  <1>6. HolderIsPresent' /\ LeaseHonoured'
    BY <1>1, <1>3 DEF HolderIsPresent, LeaseHonoured, Bound
  <1> QED
    BY <1>4, <1>5, <1>6

(* An entry that is given up keeps its type and is idle afterwards; its     *)
(* client is remembered or forgotten.                                       *)
LEMMA DroppedFacts ==
  ASSUME NEW c \in EntryType
  PROVE  /\ Dropped(c) \in EntryType
         /\ Dropped(c).State = "IDLE"
         /\ Dropped(c).MacAddr \in {NoMac, c.MacAddr}
  BY DEF Dropped, EntryType

(* A station gives its entry back, or the server deletes the entry of one   *)
(* that has left: one entry in use becomes idle, and its client holds no    *)
(* address.                                                                 *)
LEMMA OneEntryIdle ==
  ASSUME IInv, TypeOK', NEW mac \in Stations, NEW e \in Entries,
         Clients[e].State # "IDLE", Clients[e].MacAddr = mac,
         Clients'[e].State = "IDLE", Clients'[e].MacAddr \in {NoMac, mac},
         \A i \in Entries \ {e} : Clients'[i] = Clients[i],
         leased'[mac] = 0,
         \A m \in Stations \ {mac} : leased'[m] = leased[m],
         Enable' = Enable, present' = present
  PROVE  IInv'
  <1> USE DEF IInv
  <1>1. InUseHasClient' /\ OneEntryPerClient'
    BY DEF InUseHasClient, OneEntryPerClient, Idle
  <1>2. NoHistoryWhenBound'
    <2> SUFFICES ASSUME NEW i \in Entries, NEW j \in Entries,
                        Clients'[i].State = "BIND", Clients'[j].State = "IDLE"
                 PROVE  Clients'[j].MacAddr # Clients'[i].MacAddr
      BY DEF NoHistoryWhenBound, Bound, Idle
    <2>1. i # e /\ Clients'[i] = Clients[i] /\ Clients[i].MacAddr \in Stations
      BY DEF InUseHasClient, Idle
    <2>2. Clients[i].MacAddr # NoMac /\ Clients[i].MacAddr # mac
      BY <2>1, DhcpAssumption DEF OneEntryPerClient, Idle
    <2> QED
      BY <2>1, <2>2 DEF NoHistoryWhenBound, Bound, Idle
  <1>3. HolderIsPresent'
    BY DEF HolderIsPresent
  <1>4. LeaseHonoured'
    BY DEF LeaseHonoured, Bound
  <1> QED
    BY <1>1, <1>2, <1>3, <1>4

(* RELEASE and DECLINE. *)
LEMMA GiveBackStep ==
  ASSUME IInv, NEW mac \in Stations, GiveBack(mac)
  PROVE  IInv'
  <1> DEFINE my == MyClient(mac)
  <1>1. /\ Clients \in [Entries -> EntryType] /\ leased \in [Stations -> Nat]
        /\ leased' = [leased EXCEPT ![mac] = 0]
        /\ Enable' = Enable /\ present' = present
    BY DEF IInv, TypeOK, GiveBack
  <1>2. leased' \in [Stations -> Nat] /\ leased'[mac] = 0
        /\ \A m \in Stations \ {mac} : leased'[m] = leased[m]
    BY <1>1
  <1>3. CASE my = 0
    <2>1. Clients' = Clients
      BY <1>3 DEF GiveBack
    <2>2. TypeOK'
      BY <1>2, <2>1 DEF IInv, TypeOK, GiveBack
    <2> QED
      BY <1>1, <1>2, <2>1, <2>2
      DEF IInv, InUseHasClient, HolderIsPresent, OneEntryPerClient, NoHistoryWhenBound,
          LeaseHonoured, Idle, Bound
  <1>4. CASE my # 0
    <2>1. my \in Entries /\ Clients[my].State # "IDLE" /\ Clients[my].MacAddr = mac
      BY <1>4, MyClientFacts
    <2>2. Clients' = [Clients EXCEPT ![my] = Dropped(Clients[my])]
      BY <1>4 DEF GiveBack
    <2>3. Clients[my] \in EntryType
      BY <1>1, <2>1
    <2> HIDE DEF my
    <2>4. Clients' \in [Entries -> EntryType]
      BY <1>1, <2>1, <2>2, <2>3, DroppedFacts
    <2>5. TypeOK'
      BY <1>2, <2>4 DEF IInv, TypeOK, GiveBack
    <2>6. /\ Clients'[my].State = "IDLE" /\ Clients'[my].MacAddr \in {NoMac, mac}
          /\ \A i \in Entries \ {my} : Clients'[i] = Clients[i]
      BY <1>1, <2>1, <2>2, <2>3, DroppedFacts
    <2> QED
      BY <1>1, <1>2, <2>1, <2>5, <2>6, OneEntryIdle
  <1> QED
    BY <1>3, <1>4

(* DHCPS_ClientDelete. *)
LEMMA DeleteStep ==
  ASSUME IInv, NEW mac \in Stations, DHCPS_ClientDelete(mac)
  PROVE  IInv'
  <1> DEFINE mine == {i \in Entries : ~Idle(i) /\ Clients[i].MacAddr = mac}
             e == FirstIn(mine)
  <1>1. e # 0 /\ Clients' = [Clients EXCEPT ![e].State = "IDLE"]
    BY DEF DHCPS_ClientDelete
  <1>2. e \in mine
    BY <1>1, Found
  <1>3. e \in Entries /\ Clients[e].State # "IDLE" /\ Clients[e].MacAddr = mac
    BY <1>2 DEF Idle
  <1> HIDE DEF e
  <1>4. /\ Clients \in [Entries -> EntryType] /\ Clients[e] \in EntryType
        /\ leased' = leased /\ Enable' = Enable /\ present' = present
    BY <1>3 DEF IInv, TypeOK, DHCPS_ClientDelete
  <1>5. leased[mac] = 0
    BY DEF IInv, HolderIsPresent, DHCPS_ClientDelete
  <1>6. [Clients[e] EXCEPT !.State = "IDLE"] \in EntryType
    BY <1>4 DEF EntryType
  <1>7. Clients' \in [Entries -> EntryType]
    BY <1>1, <1>3, <1>4, <1>6
  <1>8. TypeOK'
    BY <1>7 DEF IInv, TypeOK, DHCPS_ClientDelete
  <1>9. /\ Clients'[e].State = "IDLE" /\ Clients'[e].MacAddr = mac
        /\ \A i \in Entries \ {e} : Clients'[i] = Clients[i]
    BY <1>1, <1>3, <1>4 DEF EntryType
  <1> QED
    BY <1>3, <1>4, <1>5, <1>8, <1>9, OneEntryIdle

(* An entry is offered or acknowledged: it was idle or the client's own, the *)
(* client leaves any other entry, and nobody else is disturbed.              *)
LEMMA OneEntryGiven ==
  ASSUME IInv, TypeOK', NEW mac \in Stations, NEW e \in Entries,
         Clients[e].State = "IDLE" \/ Clients[e].MacAddr = mac,
         Clients'[e].State # "IDLE", Clients'[e].MacAddr = mac,
         \A i \in Entries \ {e} :
           \/ /\ Clients[i].State # "IDLE" /\ Clients[i].MacAddr # mac
              /\ Clients'[i].State = Clients[i].State
              /\ Clients'[i].MacAddr = Clients[i].MacAddr
           \/ /\ Clients[i].State = "IDLE" \/ Clients[i].MacAddr = mac
              /\ Clients'[i].State = "IDLE"
              /\ Clients'[i].MacAddr \in {NoMac, Clients[i].MacAddr}
              /\ Clients'[e].State = "BIND" => Clients'[i].MacAddr # mac,
         leased'[mac] # 0 => Clients'[e].State = "BIND" /\ IpAddr(e) = leased'[mac],
         \A m \in Stations \ {mac} : leased'[m] = leased[m],
         Enable, mac \in present, Enable' = Enable, present' = present
  PROVE  IInv'
  <1> USE DEF IInv
  <1>1. InUseHasClient' /\ OneEntryPerClient'
    BY DEF InUseHasClient, OneEntryPerClient, Idle
  <1>2. NoHistoryWhenBound'
    <2> SUFFICES ASSUME NEW i \in Entries, NEW j \in Entries,
                        Clients'[i].State = "BIND", Clients'[j].State = "IDLE"
                 PROVE  Clients'[j].MacAddr # Clients'[i].MacAddr
      BY DEF NoHistoryWhenBound, Bound, Idle
    <2>1. j # e
      OBVIOUS
    <2>2. CASE i = e
      BY <2>1, <2>2
    <2>3. CASE i # e
      <3>1. /\ Clients[i].State = "BIND" /\ Clients[i].MacAddr # mac
            /\ Clients'[i].MacAddr = Clients[i].MacAddr
        BY <2>3
      <3>2. Clients[i].MacAddr # NoMac
        BY <3>1, DhcpAssumption DEF InUseHasClient, Idle
      <3>3. CASE Clients[j].State = "IDLE"
        BY <2>1, <3>1, <3>2, <3>3 DEF NoHistoryWhenBound, Bound, Idle
      <3>4. CASE Clients[j].State # "IDLE"
        BY <2>1, <3>1, <3>2, <3>4
      <3> QED
        BY <3>3, <3>4
    <2> QED
      BY <2>2, <2>3
  <1>3. HolderIsPresent'
    BY DEF HolderIsPresent
  <1>4. LeaseHonoured'
    <2> SUFFICES ASSUME NEW m \in Stations, leased'[m] # 0
                 PROVE  \E i \in Entries : /\ Clients'[i].State = "BIND"
                                           /\ Clients'[i].MacAddr = m
                                           /\ IpAddr(i) = leased'[m]
      BY DEF LeaseHonoured, Bound
    <2>1. CASE m = mac
      BY <2>1
    <2>2. CASE m # mac
      <3>1. PICK i \in Entries : /\ Clients[i].State = "BIND" /\ Clients[i].MacAddr = m
                                 /\ IpAddr(i) = leased[m]
        BY <2>2 DEF LeaseHonoured, Bound
      <3>2. i # e
        BY <2>2, <3>1
      <3> QED
        BY <2>2, <3>1, <3>2
    <2> QED
      BY <2>1, <2>2
  <1> QED
    BY <1>1, <1>2, <1>3, <1>4

(* Nothing changes but that a client may forget its address. *)
LEMMA NothingGiven ==
  ASSUME IInv, TypeOK', NEW mac \in Stations, Clients' = Clients,
         leased'[mac] \in {0, leased[mac]},
         \A m \in Stations \ {mac} : leased'[m] = leased[m],
         Enable' = Enable, present' = present
  PROVE  IInv'
  <1> USE DEF IInv
  <1>1. InUseHasClient' /\ OneEntryPerClient' /\ NoHistoryWhenBound'
    BY DEF InUseHasClient, OneEntryPerClient, NoHistoryWhenBound, Idle, Bound
  <1>2. \A m \in Stations : leased'[m] # 0 => leased'[m] = leased[m]
    OBVIOUS
  <1>3. HolderIsPresent' /\ LeaseHonoured'
    BY <1>2 DEF HolderIsPresent, LeaseHonoured, Bound
  <1> QED
    BY <1>1, <1>3

(* The client's entry is the only one in use by it. *)
LEMMA OthersAreNotMine ==
  ASSUME IInv, NEW mac, NEW i \in Entries, i # MyClient(mac), Clients[i].State # "IDLE"
  PROVE  Clients[i].MacAddr # mac
  BY MyClientFacts DEF IInv, OneEntryPerClient, Idle

(* DISCOVER. *)
LEMMA DiscoverStep ==
  ASSUME IInv, NEW mac \in Stations, NEW ip, Discover(mac, ip)
  PROVE  IInv'
  <1> DEFINE my == MyClient(mac)
             req == ReqClient(ip)
             entry == IF my # 0 THEN FirstNonNull(req, my) ELSE NewEntry(mac, ip)
             table == IF my # 0 /\ req # 0
                        THEN [Clients EXCEPT ![my].State = "IDLE", ![my].MacAddr = NoMac]
                        ELSE Clients
  <1>1. /\ Clients \in [Entries -> EntryType] /\ leased \in [Stations -> Nat]
        /\ leased' = [leased EXCEPT ![mac] = 0]
        /\ Enable /\ mac \in present /\ Enable' = Enable /\ present' = present
    BY DEF IInv, TypeOK, Discover, Offer, Nak
  <1>2. leased' \in [Stations -> Nat] /\ leased'[mac] = 0
        /\ \A m \in Stations \ {mac} : leased'[m] = leased[m]
    BY <1>1
  <1>3. my # 0 => my \in Entries /\ Clients[my].State # "IDLE" /\ Clients[my].MacAddr = mac
    BY MyClientFacts
  <1>4. req # 0 => req \in Entries /\ Clients[req].State = "IDLE"
    BY ReqClientFacts
  <1>5. entry # 0 => /\ entry \in Entries
                     /\ Clients[entry].State = "IDLE" \/ Clients[entry].MacAddr = mac
                     /\ my # 0 /\ entry # my => req # 0
    BY <1>3, <1>4, NewEntryFacts DEF FirstNonNull
  <1>6. \A i \in Entries : i # my /\ Clients[i].State # "IDLE" => Clients[i].MacAddr # mac
    BY OthersAreNotMine
  <1>7. \/ /\ entry # 0
           /\ Clients' = [table EXCEPT ![entry].MacAddr = mac, ![entry].State = "REQUEST",
                                       ![entry].Timeout = Timeout]
           /\ reply' = "OFFER"
        \/ entry = 0 /\ reply' = "NAK" /\ Clients' = Clients
    BY DEF Discover, Offer, Nak
  <1>8. /\ table \in [Entries -> EntryType]
        /\ \A i \in Entries \ {my} : table[i] = Clients[i]
        /\ my # 0 /\ req # 0 => table[my].State = "IDLE" /\ table[my].MacAddr = NoMac
    <2>1. CASE my # 0 /\ req # 0
      BY <1>1, <1>3, <2>1 DEF EntryType
    <2>2. CASE ~(my # 0 /\ req # 0)
      BY <1>1, <2>2
    <2> QED
      BY <2>1, <2>2
  <1>9. Timeout \in 0 .. Timeout
    BY DhcpAssumption
  <1> HIDE DEF my, req, entry, table
  <1>10. CASE entry = 0
    <2>1. Clients' = Clients /\ reply' = "NAK"
      BY <1>7, <1>10
    <2>2. TypeOK'
      BY <1>2, <2>1 DEF IInv, TypeOK, Discover, Offer, Nak
    <2> QED
      BY <1>1, <1>2, <2>1, <2>2, NothingGiven
  <1>11. CASE entry # 0
    <2>1. /\ reply' = "OFFER"
          /\ Clients' = [table EXCEPT ![entry].MacAddr = mac, ![entry].State = "REQUEST",
                                      ![entry].Timeout = Timeout]
      BY <1>7, <1>11
    <2>2. Clients' \in [Entries -> EntryType]
      <3>1. table[entry] \in EntryType
        BY <1>5, <1>8, <1>11
      <3>2. [table[entry] EXCEPT !.MacAddr = mac, !.State = "REQUEST",
                                 !.Timeout = Timeout] \in EntryType
        BY <1>9, <3>1 DEF EntryType
      <3>3. Clients' = [table EXCEPT ![entry] =
                          [table[entry] EXCEPT !.MacAddr = mac, !.State = "REQUEST",
                                               !.Timeout = Timeout]]
        BY <1>5, <1>8, <1>11, <2>1
      <3> QED
        BY <1>8, <3>2, <3>3
    <2>3. TypeOK'
      BY <1>2, <2>1, <2>2 DEF IInv, TypeOK, Discover, Offer, Nak
    <2>4. /\ Clients'[entry].State = "REQUEST" /\ Clients'[entry].MacAddr = mac
          /\ \A i \in Entries \ {entry} : Clients'[i] = table[i]
      BY <1>5, <1>8, <1>11, <2>1 DEF EntryType
    <2>5. \A i \in Entries \ {entry} :
            \/ /\ Clients[i].State # "IDLE" /\ Clients[i].MacAddr # mac
               /\ Clients'[i].State = Clients[i].State
               /\ Clients'[i].MacAddr = Clients[i].MacAddr
            \/ /\ Clients[i].State = "IDLE" \/ Clients[i].MacAddr = mac
               /\ Clients'[i].State = "IDLE"
               /\ Clients'[i].MacAddr \in {NoMac, Clients[i].MacAddr}
      <3> TAKE i \in Entries \ {entry}
      <3>1. CASE i = my
        <4>1. my # 0
          BY <3>1 DEF Entries
        <4> QED
          BY <1>3, <1>5, <1>8, <1>11, <2>4, <3>1, <4>1
      <3>2. CASE i # my
        BY <1>6, <1>8, <2>4, <3>2
      <3> QED
        BY <3>1, <3>2
    <2> QED
      BY <1>1, <1>2, <1>5, <1>11, <2>3, <2>4, <2>5, OneEntryGiven
  <1> QED
    BY <1>10, <1>11

(* What an acknowledgement does to the table. *)
LEMMA AcknowledgeFacts ==
  ASSUME NEW table \in [Entries -> EntryType], NEW e \in Entries, NEW mac \in Stations
  PROVE  LET new == Acknowledge(table, e, mac)
         IN  /\ new \in [Entries -> EntryType]
             /\ new[e].State = "BIND" /\ new[e].MacAddr = mac
             /\ \A i \in Entries \ {e} :
                  /\ new[i].State = table[i].State
                  /\ new[i].MacAddr \in {NoMac, table[i].MacAddr}
                  /\ table[i].State # "IDLE" => new[i].MacAddr = table[i].MacAddr
                  /\ table[i].State = "IDLE" => new[i].MacAddr # mac
  <1> DEFINE c == [table[e] EXCEPT !.State = "BIND", !.MacAddr = mac, !.Lease = LeaseTime]
             mid == [table EXCEPT ![e] = c]
  <1>1. mid = [table EXCEPT ![e].State = "BIND", ![e].MacAddr = mac, ![e].Lease = LeaseTime]
    OBVIOUS
  <1>2. LeaseTime \in 0 .. LeaseTime /\ NoMac # mac
    BY DhcpAssumption
  <1>3. c \in EntryType /\ c.State = "BIND" /\ c.MacAddr = mac
    BY <1>2 DEF EntryType
  <1> HIDE DEF c
  <1>4. mid \in [Entries -> EntryType] /\ mid[e] = c /\ \A i \in Entries \ {e} : mid[i] = table[i]
    BY <1>3
  <1> HIDE DEF mid
  <1>5. \A r \in EntryType : /\ [r EXCEPT !.MacAddr = NoMac] \in EntryType
                             /\ [r EXCEPT !.MacAddr = NoMac].State = r.State
                             /\ [r EXCEPT !.MacAddr = NoMac].MacAddr = NoMac
    BY DEF EntryType
  <1>6. Acknowledge(table, e, mac) =
          [i \in Entries |-> IF mid[i].State = "IDLE" /\ mid[i].MacAddr = mac
                               THEN [mid[i] EXCEPT !.MacAddr = NoMac] ELSE mid[i]]
    BY <1>1 DEF Acknowledge, CleanClientHistory
  <1>7. Acknowledge(table, e, mac) \in [Entries -> EntryType]
    BY <1>4, <1>5, <1>6
  <1>8. Acknowledge(table, e, mac)[e] = c
    BY <1>3, <1>4, <1>6
  <1>9. \A i \in Entries \ {e} :
          Acknowledge(table, e, mac)[i] = IF table[i].State = "IDLE" /\ table[i].MacAddr = mac
                                            THEN [table[i] EXCEPT !.MacAddr = NoMac]
                                            ELSE table[i]
    BY <1>4, <1>6
  <1> DEFINE new == Acknowledge(table, e, mac)
  <1>10. \A i \in Entries \ {e} : new[i] = IF table[i].State = "IDLE" /\ table[i].MacAddr = mac
                                            THEN [table[i] EXCEPT !.MacAddr = NoMac]
                                            ELSE table[i]
    BY <1>9
  <1>11. new \in [Entries -> EntryType] /\ new[e].State = "BIND" /\ new[e].MacAddr = mac
    BY <1>3, <1>7, <1>8
  <1> HIDE DEF new
  <1>12. ASSUME NEW i \in Entries \ {e}
         PROVE  /\ new[i].State = table[i].State
                /\ new[i].MacAddr \in {NoMac, table[i].MacAddr}
                /\ table[i].State # "IDLE" => new[i].MacAddr = table[i].MacAddr
                /\ table[i].State = "IDLE" => new[i].MacAddr # mac
    <2>1. CASE table[i].State = "IDLE" /\ table[i].MacAddr = mac
      <3> DEFINE r == [table[i] EXCEPT !.MacAddr = NoMac]
      <3>1. r.State = table[i].State /\ r.MacAddr = NoMac
        BY <1>5
      <3>2. new[i] = r
        BY <1>10, <2>1
      <3> HIDE DEF r
      <3> QED
        BY <1>2, <2>1, <3>1, <3>2
    <2>2. CASE ~ (table[i].State = "IDLE" /\ table[i].MacAddr = mac)
      BY <1>10, <2>2
    <2> QED
      BY <2>1, <2>2
  <1> QED
    BY <1>11, <1>12, Zenon DEF new

(* A renewal asks for no address, so it never leaves its entry. *)
LEMMA RenewalStays ==
  ASSUME NEW mac
  PROVE  ReqClient(0) = 0 /\ ~IpUnavailable(mac, 0)
  <1>1. \A i \in Entries : IpAddr(i) # 0
    BY IpAddrType
  <1> QED
    BY <1>1, ReqClientFacts DEF IpUnavailable

(* REQUEST. *)
LEMMA RequestStep ==
  ASSUME IInv, NEW mac \in Stations, NEW ip, NEW forMe \in BOOLEAN, Request(mac, ip, forMe)
  PROVE  IInv'
  <1> DEFINE my == MyClient(mac)
             req == ReqClient(ip)
             entry == RequestedEntry(mac, ip, forMe)
             leaves == LeavesEntry(mac, ip)
             table == IF leaves THEN [Clients EXCEPT ![my] = Dropped(Clients[my])] ELSE Clients
             keeps == IF ip = 0 THEN leased[mac] ELSE 0
  <1>1. /\ Clients \in [Entries -> EntryType] /\ leased \in [Stations -> Nat]
        /\ Enable /\ mac \in present /\ Enable' = Enable /\ present' = present
    BY DEF IInv, TypeOK, Request, Ack, Nak
  <1>2. my # 0 => my \in Entries /\ Clients[my].State # "IDLE" /\ Clients[my].MacAddr = mac
    BY MyClientFacts
  <1>3. req # 0 => req \in Entries /\ Clients[req].State = "IDLE"
    BY ReqClientFacts
  <1>4. entry # 0 => /\ entry \in Entries
                     /\ Clients[entry].State = "IDLE" \/ Clients[entry].MacAddr = mac
                     /\ my # 0 /\ entry # my => leaves
                     /\ entry = my \/ entry = req
                     /\ my # 0 /\ req = 0 => entry = my
    BY <1>2, <1>3 DEF RequestedEntry, LeavesEntry, FirstNonNull
  <1>5. leaves => my # 0 /\ ip # 0
    BY RenewalStays DEF LeavesEntry
  <1>6. \A i \in Entries : i # my /\ Clients[i].State # "IDLE" => Clients[i].MacAddr # mac
    BY OthersAreNotMine
  <1>7. \/ /\ entry # 0 /\ Clients' = Acknowledge(table, entry, mac) /\ reply' = "ACK"
           /\ leased' \in {[leased EXCEPT ![mac] = IpAddr(entry)],
                           [leased EXCEPT ![mac] = keeps]}
        \/ /\ entry = 0 /\ Clients' = table /\ reply' = "NAK"
           /\ leased' \in {[leased EXCEPT ![mac] = 0], [leased EXCEPT ![mac] = keeps]}
    BY DEF Request, Ack, Nak, Believes
  <1>8. keeps \in Nat /\ keeps \in {0, leased[mac]} /\ (ip # 0 => keeps = 0)
    BY <1>1
  <1>9. leaves => /\ Clients[my] \in EntryType
                  /\ Dropped(Clients[my]) \in EntryType
                  /\ Dropped(Clients[my]).State = "IDLE"
                  /\ Dropped(Clients[my]).MacAddr \in {NoMac, mac}
    BY <1>1, <1>2, <1>5, DroppedFacts
  <1>10. /\ table \in [Entries -> EntryType]
         /\ \A i \in Entries \ {my} : table[i] = Clients[i]
         /\ leaves => table[my].State = "IDLE" /\ table[my].MacAddr \in {NoMac, mac}
         /\ ~leaves => table = Clients
    <2>1. CASE leaves
      BY <1>1, <1>2, <1>5, <1>9, <2>1
    <2>2. CASE ~leaves
      BY <1>1, <2>2
    <2> QED
      BY <2>1, <2>2
  <1>11. ip = 0 /\ leased[mac] # 0 =>
           my # 0 /\ Clients[my].State = "BIND" /\ IpAddr(my) = leased[mac] /\ req = 0
    <2> SUFFICES ASSUME ip = 0, leased[mac] # 0
                 PROVE  my # 0 /\ Clients[my].State = "BIND" /\ IpAddr(my) = leased[mac] /\ req = 0
      OBVIOUS
    <2>1. req = 0
      BY RenewalStays
    <2>2. PICK i \in Entries : /\ Clients[i].State = "BIND" /\ Clients[i].MacAddr = mac
                               /\ IpAddr(i) = leased[mac]
      BY DEF IInv, LeaseHonoured, Bound
    <2>3. i = my
      BY <1>6, <2>2
    <2>4. i # 0
      BY DEF Entries
    <2> QED
      BY <2>1, <2>2, <2>3, <2>4
  <1> HIDE DEF my, req, entry, leaves, table, keeps
  <1>12. CASE entry = 0
    <2>1. /\ Clients' = table /\ reply' = "NAK"
          /\ leased' \in {[leased EXCEPT ![mac] = 0], [leased EXCEPT ![mac] = keeps]}
      BY <1>7, <1>12
    <2>2. /\ leased' \in [Stations -> Nat] /\ leased'[mac] \in {0, keeps}
          /\ \A m \in Stations \ {mac} : leased'[m] = leased[m]
      BY <1>1, <1>8, <2>1
    <2>3. TypeOK'
      BY <1>10, <2>1, <2>2 DEF IInv, TypeOK, Request, Ack, Nak
    <2>4. CASE leaves
      <3>1. leased'[mac] = 0
        BY <1>5, <1>8, <2>2, <2>4
      <3>2. /\ my \in Entries /\ Clients[my].State # "IDLE" /\ Clients[my].MacAddr = mac
        BY <1>2, <1>5, <2>4
      <3>3. /\ Clients'[my].State = "IDLE" /\ Clients'[my].MacAddr \in {NoMac, mac}
            /\ \A i \in Entries \ {my} : Clients'[i] = Clients[i]
        BY <1>10, <2>1, <2>4
      <3> QED
        BY <1>1, <2>2, <2>3, <3>1, <3>2, <3>3, OneEntryIdle
    <2>5. CASE ~leaves
      <3>1. Clients' = Clients /\ leased'[mac] \in {0, leased[mac]}
        BY <1>8, <1>10, <2>1, <2>2, <2>5
      <3> QED
        BY <1>1, <2>2, <2>3, <3>1, NothingGiven
    <2> QED
      BY <2>4, <2>5
  <1>13. CASE entry # 0
    <2>1. /\ Clients' = Acknowledge(table, entry, mac) /\ reply' = "ACK"
          /\ leased' \in {[leased EXCEPT ![mac] = IpAddr(entry)],
                          [leased EXCEPT ![mac] = keeps]}
      BY <1>7, <1>13
    <2>2. entry \in Entries /\ IpAddr(entry) \in Nat
      BY <1>4, <1>13, IpAddrType
    <2>3. /\ leased' \in [Stations -> Nat] /\ leased'[mac] \in {IpAddr(entry), keeps}
          /\ \A m \in Stations \ {mac} : leased'[m] = leased[m]
      BY <1>1, <1>8, <2>1, <2>2
    <2>4. /\ Clients' \in [Entries -> EntryType]
          /\ Clients'[entry].State = "BIND" /\ Clients'[entry].MacAddr = mac
          /\ \A i \in Entries \ {entry} :
               /\ Clients'[i].State = table[i].State
               /\ Clients'[i].MacAddr \in {NoMac, table[i].MacAddr}
               /\ table[i].State # "IDLE" => Clients'[i].MacAddr = table[i].MacAddr
               /\ table[i].State = "IDLE" => Clients'[i].MacAddr # mac
      BY <1>10, <2>1, <2>2, AcknowledgeFacts
    <2>5. TypeOK'
      BY <2>1, <2>3, <2>4 DEF IInv, TypeOK, Request, Ack, Nak
    <2>6. \A i \in Entries \ {entry} :
            \/ /\ Clients[i].State # "IDLE" /\ Clients[i].MacAddr # mac
               /\ Clients'[i].State = Clients[i].State
               /\ Clients'[i].MacAddr = Clients[i].MacAddr
            \/ /\ Clients[i].State = "IDLE" \/ Clients[i].MacAddr = mac
               /\ Clients'[i].State = "IDLE"
               /\ Clients'[i].MacAddr \in {NoMac, Clients[i].MacAddr}
               /\ Clients'[i].MacAddr # mac
      <3> TAKE i \in Entries \ {entry}
      <3>1. CASE i = my
        <4>1. my # 0 /\ leaves
          BY <1>4, <1>13, <3>1 DEF Entries
        <4> QED
          BY <1>2, <1>10, <2>4, <3>1, <4>1
      <3>2. CASE i # my
        BY <1>6, <1>10, <2>4, <3>2
      <3> QED
        BY <3>1, <3>2
    <2>7. leased'[mac] # 0 => IpAddr(entry) = leased'[mac]
      BY <1>4, <1>8, <1>11, <1>13, <2>3
    <2> QED
      BY <1>1, <1>4, <1>13, <2>2, <2>3, <2>4, <2>5, <2>6, <2>7, OneEntryGiven
  <1> QED
    BY <1>12, <1>13

-----------------------------------------------------------------------------
(* The inductive invariant holds in every reachable state, for every number *)
(* of stations and entries, every mask and every timeout.                   *)
THEOREM Invariance == Spec => []IInv
  <1>1. ASSUME IInv, [Next]_vars PROVE IInv'
    <2>1. CASE DHCPS_Start \/ DHCPS_Stop
      BY <1>1, <2>1, StartStopStep
    <2>2. CASE DhcpTick
      BY <1>1, <2>2, TickStep
    <2>3. ASSUME NEW mac \in Stations,
                 \/ Message(mac) \/ DHCPS_ClientDelete(mac)
                 \/ StationJoins(mac) \/ StationLeaves(mac)
          PROVE  IInv'
      <3>1. ASSUME NEW ip, Discover(mac, ip) PROVE IInv'
        BY <1>1, <3>1, DiscoverStep
      <3>2. ASSUME NEW ip, NEW forMe \in BOOLEAN, Request(mac, ip, forMe) PROVE IInv'
        BY <1>1, <3>2, RequestStep
      <3>3. CASE GiveBack(mac)
        BY <1>1, <3>3, GiveBackStep
      <3>4. CASE DHCPS_ClientDelete(mac)
        BY <1>1, <3>4, DeleteStep
      <3>5. CASE OtherMessage(mac) \/ StationJoins(mac) \/ StationLeaves(mac)
        BY <1>1, <3>5, OutsideStep
      <3> QED
        BY <2>3, <3>1, <3>2, <3>3, <3>4, <3>5 DEF Message
    <2>4. CASE UNCHANGED vars
      BY <1>1, <2>4
      DEF vars, IInv, TypeOK, InUseHasClient, HolderIsPresent, OneEntryPerClient,
          NoHistoryWhenBound, LeaseHonoured, Idle, Bound
    <2> QED
      BY <1>1, <2>1, <2>2, <2>3, <2>4 DEF Next
  <1> QED
    BY <1>1, InitIInv, PTL DEF Spec

(* Every variable of the server keeps its type. *)
THEOREM TypeCorrect == Spec => []TypeOK
  <1>1. IInv => TypeOK
    BY DEF IInv
  <1> QED
    BY <1>1, Invariance, PTL

(* A client never occupies two entries (_ClientTableLookup). *)
THEOREM OneEntryCorrect == Spec => []OneEntryPerClient
  <1>1. IInv => OneEntryPerClient
    BY DEF IInv
  <1> QED
    BY <1>1, Invariance, PTL

(* What a station holds is bound to it (DHCPS_RecvCb, _DhcpTickHandle). *)
THEOREM LeaseCorrect == Spec => []LeaseHonoured
  <1>1. IInv => LeaseHonoured
    BY DEF IInv
  <1> QED
    BY <1>1, Invariance, PTL

(* A bound client is remembered nowhere else (_CleanClientHistory). *)
THEOREM HistoryCorrect == Spec => []NoHistoryWhenBound
  <1>1. IInv => NoHistoryWhenBound
    BY DEF IInv
  <1> QED
    BY <1>1, Invariance, PTL

(* No two stations hold the same address, provided that the addresses that  *)
(* DHCPS_Start computes for the pool are distinct.                          *)
THEOREM NoSharedLease ==
  ASSUME \A i, j \in Entries : IpAddr(i) = IpAddr(j) => i = j
  PROVE  Spec => [](\A m, n \in Stations : leased[m] = leased[n] /\ leased[m] # 0 => m = n)
  <1>1. IInv => (\A m, n \in Stations : leased[m] = leased[n] /\ leased[m] # 0 => m = n)
    BY DEF IInv, LeaseHonoured
  <1> QED
    BY <1>1, Invariance, PTL
=============================================================================
