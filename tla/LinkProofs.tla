----------------------------- MODULE LinkProofs -----------------------------
(***************************************************************************)
(* Proof that what the device believes of its link agrees with the link    *)
(* once the system manager has handled every event (LinkSettles), for      *)
(* every number of AT commands, of links the network ends, of starts that  *)
(* fail for want of memory, and of tries of the DHCP client.               *)
(*                                                                         *)
(* The heart of it is the queue: its UP and DOWN events alternate, from    *)
(* what SysMgmtMain believes of the link to what the link is (Alternates). *)
(* So each DOWN undoes one UP, and undoes all of it unless the mode was    *)
(* changed between the two (ClientInv, ServerInv).                         *)
(***************************************************************************)
EXTENDS LinkEvents, SequenceTheorems, TLAPS

(* The link as the handler of events knows it: up as soon as L2LinkUp has  *)
(* begun, and until an event says otherwise.                               *)
Believed == IF linked = "no" THEN 0 ELSE 1
On(m) == IF m.state = "on" THEN 1 ELSE 0

(* An event e takes the link from level a to level b. *)
Step(e, a, b) ==
  /\ e = "UP" => a = 0 /\ b = 1
  /\ e = "DOWN" => a = 1 /\ b = 0
  /\ e \notin {"UP", "DOWN"} => a = b
  /\ e \in {"JOIN_FAIL", "DIRECT_CFG_DONE"} => b = 0

Alternates(q, from, to) ==
  \E level \in [0..Len(q) -> {0, 1}] :
    /\ level[0] = from /\ level[Len(q)] = to
    /\ \A k \in 1..Len(q) : Step(q[k], level[k - 1], level[k])

MacType == [state : {"off", "joining", "ready", "on", "direct"}, mode : Modes,
            scanning : BOOLEAN, q : Seq(Events)]
MacOK(m, from) == m \in MacType /\ Alternates(m.q, from, On(m))

ParamType ==
  /\ Protocol \in Modes /\ ssid \in BOOLEAN /\ bDhcp \in BOOLEAN
  /\ DhcpTryTimes \in TryTimes /\ changed \in BOOLEAN

DhcpStates == {"off", "selecting", "stalled", "requesting", "checking", "backing",
               "bound", "renewing", "rebinding"}

NetType ==
  /\ sys \in {"idle", "dhcp", "late"}
  /\ up \in BOOLEAN /\ addr \in {"none", "static", "dhcp"}
  /\ dhcp \in DhcpStates /\ tries \in 0..(TriesWrap - 1)
  /\ pcbs \in [Servers -> Nat] /\ Socket \in [Servers -> {"null", "held", "freed"}]
  /\ twice \in BOOLEAN

AppType ==
  /\ link_status \in Statuses /\ ScanFlag \in {0, 1} /\ smtconfigBegin \in {0, 1}
  /\ at \in {"boot", "idle", "wscap", "wqsopt", "wsmtconf", "wscanap"}
  /\ arg \in [mode : Modes, good : BOOLEAN]
  /\ softap \in {"none", "stopped", "opened", "serving", "configured", "done"}
  /\ linked \in {"no", "up", "failed"} /\ moved \in Nat /\ faults \in 0..MaxFaults
  /\ commands \in 0..MaxCommands /\ losses \in 0..MaxLosses

(* The application is told of the link at the end of L2LinkUp. *)
StatusInv ==
  /\ link_status = "LINK_UP" <=> (linked = "up" /\ sys = "idle")
  /\ sys # "idle" => linked = "up"
  /\ linked = "failed" => Socket["dnss"] = "null"

(* The interface, and the DHCP client that may take its address away. *)
NetInv ==
  /\ up <=> addr # "none"
  /\ sys = "idle" /\ linked # "no" /\ addr = "none" => dhcp \notin {"off", "bound"}
  /\ linked = "no" /\ addr # "none" => dhcp # "off"

(* The client runs on after a link only when the mode was changed. *)
ClientInv ==
  moved = 0 => /\ linked = "no" => dhcp = "off" /\ addr = "none"
               /\ dhcp # "off" /\ ~changed => Protocol = "STA" /\ bDhcp

(* A control block above those lost is the Socket of the server that this  *)
(* link's L2LinkUp started, and L2LinkDown gives it back. *)
Known(s) ==
  \/ pcbs[s] <= moved
  \/ /\ linked # "no" /\ sys = "idle" /\ pcbs[s] = moved + 1
     /\ Socket[s] = "held" /\ (changed \/ Protocol = "AP")

ServerInv ==
  /\ \A s \in Servers : (Socket[s] = "held" => pcbs[s] > 0) /\ Known(s)
  /\ twice => moved > 0
  /\ linked # "no" /\ sys = "idle" /\ Protocol = "AP" /\ ~changed =>
       Socket["dnss"] # "freed"

(* With AT commands alone, while the servers run the mode stays that of a  *)
(* SoftAP: a command that is about to set it has stopped the link, and     *)
(* only a new link in station mode can have come since. *)
Setting == at \in {"wscap", "wqsopt", "wsmtconf"}
Alone == softap = "none" /\ faults = 0
Holding == \E s \in Servers : Socket[s] = "held"

AloneInv ==
  Alone => /\ \A s \in Servers : pcbs[s] = IF Socket[s] = "held" THEN 1 ELSE 0
           /\ Holding => Protocol = "AP" /\ sys = "idle" /\ linked = "up"
           /\ linked # "failed"
           /\ Setting => Protocol = "STA" \/ mac.state = "off"

Inv ==
  /\ ParamType /\ NetType /\ AppType
  /\ MacOK(mac, Believed)
  /\ StatusInv /\ NetInv /\ ClientInv /\ ServerInv /\ AloneInv

-----------------------------------------------------------------------------
(* Queues whose UP and DOWN events alternate.                              *)

(* Nothing waits: the two levels are one.                                  *)
LEMMA AltEmpty ==
  /\ \A a \in {0, 1} : Alternates(<<>>, a, a)
  /\ \A a, b : Alternates(<<>>, a, b) => a = b
<1>0. Len(<<>>) = 0 /\ 1..0 = {} /\ 0..0 = {0}
  BY EmptySeq
<1>1. ASSUME NEW a \in {0, 1} PROVE Alternates(<<>>, a, a)
  <2> DEFINE level == [k \in 0..0 |-> a]
  <2>1. level \in [0..0 -> {0, 1}] /\ level[0] = a
    BY <1>0
  <2> QED
    BY <1>0, <2>1 DEF Alternates
<1>2. ASSUME NEW a, NEW b, Alternates(<<>>, a, b) PROVE a = b
  BY <1>0, <1>2 DEF Alternates
<1> QED
  BY <1>1, <1>2

(* One more event at the end.                                              *)
LEMMA AltAppend ==
  ASSUME NEW q \in Seq(Events), NEW e \in Events, NEW from, NEW a, NEW b \in {0, 1},
         Alternates(q, from, a), Step(e, a, b)
  PROVE  Alternates(Append(q, e), from, b)
<1>1. PICK level \in [0..Len(q) -> {0, 1}] :
        /\ level[0] = from /\ level[Len(q)] = a
        /\ \A k \in 1..Len(q) : Step(q[k], level[k - 1], level[k])
  BY DEF Alternates
<1> DEFINE s == Append(q, e)
           more == [k \in 0..Len(s) |-> IF k = Len(s) THEN b ELSE level[k]]
<1>2. /\ Len(q) \in Nat /\ s \in Seq(Events) /\ Len(s) = Len(q) + 1
      /\ (\A i \in 1..Len(q) : s[i] = q[i]) /\ s[Len(q) + 1] = e
  BY AppendProperties, LenProperties
<1> HIDE DEF s
<1>3. more \in [0..Len(s) -> {0, 1}]
  <2>1. \A k \in 0..Len(s) : k # Len(s) => k \in 0..Len(q)
    BY <1>2
  <2> QED
    BY <1>1, <2>1
<1>4. 0 \in 0..Len(s) /\ Len(s) \in 0..Len(s) /\ 0 # Len(s)
  BY <1>2
<1>5. more[0] = from /\ more[Len(s)] = b
  BY <1>1, <1>4
<1>6. ASSUME NEW k \in 1..Len(s) PROVE Step(s[k], more[k - 1], more[k])
  <2>1. k \in 0..Len(s) /\ k - 1 \in 0..Len(s) /\ k - 1 # Len(s)
    BY <1>2
  <2>2. more[k - 1] = level[k - 1]
    BY <2>1
  <2>3. CASE k = Len(s)
    <3>1. more[k] = b /\ s[k] = e /\ k - 1 = Len(q)
      BY <1>2, <2>1, <2>3
    <3> QED
      BY <1>1, <2>2, <3>1
  <2>4. CASE k # Len(s)
    <3>1. k \in 1..Len(q) /\ more[k] = level[k]
      BY <1>2, <2>1, <2>4
    <3> QED
      BY <1>1, <1>2, <2>2, <3>1
  <2> QED
    BY <2>3, <2>4
<1> HIDE DEF more
<1> QED
  BY <1>3, <1>5, <1>6 DEF Alternates, s

(* The first event is taken.                                               *)
LEMMA AltTail ==
  ASSUME NEW q \in Seq(Events), q # <<>>, NEW from, NEW to, Alternates(q, from, to)
  PROVE  \E mid \in {0, 1} : Step(Head(q), from, mid) /\ Alternates(Tail(q), mid, to)
<1>1. PICK level \in [0..Len(q) -> {0, 1}] :
        /\ level[0] = from /\ level[Len(q)] = to
        /\ \A k \in 1..Len(q) : Step(q[k], level[k - 1], level[k])
  BY DEF Alternates
<1> DEFINE s == Tail(q)
           less == [k \in 0..Len(s) |-> level[k + 1]]
<1>2. /\ Len(q) \in Nat \ {0} /\ s \in Seq(Events) /\ Len(s) = Len(q) - 1
      /\ \A i \in 1..Len(s) : s[i] = q[i + 1]
  BY HeadTailProperties, EmptySeq
<1>3. Head(q) = q[1]
  OBVIOUS
<1> HIDE DEF s
<1>4. less \in [0..Len(s) -> {0, 1}]
  <2>1. \A k \in 0..Len(s) : k + 1 \in 0..Len(q)
    BY <1>2
  <2> QED
    BY <1>1, <2>1
<1>5. 0 \in 0..Len(s) /\ Len(s) \in 0..Len(s) /\ Len(s) + 1 = Len(q) /\ 0 + 1 = 1
      /\ 1 \in 1..Len(q) /\ 1 - 1 = 0
  BY <1>2
<1>6. less[0] = level[1] /\ less[Len(s)] = to
  BY <1>1, <1>5
<1>7. ASSUME NEW k \in 1..Len(s) PROVE Step(s[k], less[k - 1], less[k])
  <2>1. k \in 0..Len(s) /\ k - 1 \in 0..Len(s) /\ k + 1 \in 1..Len(q)
        /\ (k - 1) + 1 = (k + 1) - 1
    BY <1>2
  <2>2. less[k] = level[k + 1] /\ less[k - 1] = level[(k + 1) - 1]
    BY <2>1
  <2> QED
    BY <1>1, <1>2, <2>1, <2>2
<1>8. level[1] \in {0, 1} /\ Step(Head(q), from, level[1])
  <2>1. Step(q[1], level[1 - 1], level[1])
    BY <1>1, <1>5
  <2>2. level[1] \in {0, 1}
    BY <1>2, <1>1
  <2> QED
    BY <1>1, <1>3, <1>5, <2>1, <2>2
<1> HIDE DEF less
<1>9. Alternates(s, level[1], to)
  BY <1>4, <1>6, <1>7 DEF Alternates
<1> QED
  BY <1>8, <1>9 DEF s

-----------------------------------------------------------------------------
(* The requests to the MAC library, and what it reports.                   *)
LEMMA PostFields ==
  ASSUME NEW m \in MacType, NEW e \in Events
  PROVE  /\ Post(m, e) \in MacType /\ Post(m, e).state = m.state
         /\ Post(m, e).q = Append(m.q, e)
<1>1. m.q \in Seq(Events) /\ Append(m.q, e) \in Seq(Events)
  BY AppendProperties DEF MacType
<1> QED
  BY <1>1 DEF Post, MacType

(* The library changes its state to s, and reports e if the link changed.  *)
LEMMA PostKeeps ==
  ASSUME NEW from, NEW m, MacOK(m, from), NEW n \in MacType, n.q = m.q, NEW e \in Events,
         Step(e, On(m), On(n))
  PROVE  MacOK(Post(n, e), from) /\ Post(n, e).state = n.state
<1>1. /\ Post(n, e) \in MacType /\ Post(n, e).state = n.state
      /\ Post(n, e).q = Append(n.q, e) /\ n.q \in Seq(Events)
  BY PostFields DEF MacType
<1>2. On(n) \in {0, 1} /\ On(Post(n, e)) = On(n)
  BY <1>1 DEF On
<1>3. Alternates(Append(n.q, e), from, On(n))
  BY <1>1, <1>2, AltAppend DEF MacOK
<1> QED
  BY <1>1, <1>2, <1>3 DEF MacOK

LEMMA Quiet ==
  ASSUME NEW from, NEW m, MacOK(m, from), NEW n \in MacType, n.q = m.q, On(n) = On(m)
  PROVE  MacOK(n, from)
BY DEF MacOK

LEMMA StopKeeps ==
  ASSUME NEW from, NEW m, MacOK(m, from)
  PROVE  MacOK(InfWiFiStop(m), from) /\ InfWiFiStop(m).state = "off"
<1>0. m \in MacType
  BY DEF MacOK
<1>1. CASE m.state = "on"
  <2> DEFINE n == [m EXCEPT !.state = "off"]
  <2>1. n \in MacType /\ n.q = m.q /\ n.state = "off" /\ On(n) = 0 /\ On(m) = 1
    BY <1>0, <1>1 DEF MacType, On
  <2>2. "DOWN" \in Events /\ Step("DOWN", 1, 0)
    BY DEF Events, Step
  <2>3. InfWiFiStop(m) = Post(n, "DOWN")
    BY <1>0, <1>1 DEF InfWiFiStop, Post, MacType
  <2> HIDE DEF n
  <2> QED
    BY <2>1, <2>2, <2>3, PostKeeps
<1>2. CASE m.state # "on"
  <2> DEFINE n == [m EXCEPT !.state = "off"]
  <2>1. n \in MacType /\ n.q = m.q /\ n.state = "off" /\ On(n) = On(m)
    BY <1>0, <1>2 DEF MacType, On
  <2>2. InfWiFiStop(m) = n
    BY <1>2 DEF InfWiFiStop
  <2> HIDE DEF n
  <2> QED
    BY <2>1, <2>2, Quiet
<1> QED
  BY <1>1, <1>2

LEMMA StartKeeps ==
  ASSUME NEW from, NEW m, MacOK(m, from), NEW p \in Modes, NEW s \in BOOLEAN
  PROVE  MacOK(InfWiFiStart(m, p, s), from)
<1>0. m \in MacType
  BY DEF MacOK
<1>1. CASE m.state # "off"
  BY <1>1 DEF InfWiFiStart
<1>2. CASE m.state = "off" /\ p = "AP"
  <2> DEFINE n == [m EXCEPT !.state = "on", !.mode = "AP"]
  <2>1. n \in MacType /\ n.q = m.q /\ On(n) = 1 /\ On(m) = 0
    BY <1>0, <1>2 DEF MacType, On, Modes
  <2>2. "UP" \in Events /\ Step("UP", 0, 1)
    BY DEF Events, Step
  <2>3. InfWiFiStart(m, p, s) = Post(n, "UP")
    BY <1>2 DEF InfWiFiStart
  <2> HIDE DEF n
  <2> QED
    BY <2>1, <2>2, <2>3, PostKeeps
<1>3. CASE m.state = "off" /\ p # "AP"
  <2> DEFINE t == IF s THEN "joining" ELSE "ready"
             n == [m EXCEPT !.state = t, !.mode = "STA"]
  <2>1. t \in {"joining", "ready"}
    OBVIOUS
  <2>2. InfWiFiStart(m, p, s) = n
    BY <1>3 DEF InfWiFiStart
  <2> HIDE DEF t
  <2>3. n \in MacType /\ n.q = m.q /\ On(n) = On(m)
    BY <1>0, <1>3, <2>1 DEF MacType, On, Modes
  <2> HIDE DEF n
  <2> QED
    BY <2>2, <2>3, Quiet
<1> QED
  BY <1>1, <1>2, <1>3

LEMMA ScanStartKeeps ==
  ASSUME NEW from, NEW m, MacOK(m, from)
  PROVE  MacOK(InfScanStart(m), from)
<1> DEFINE n == [m EXCEPT !.scanning = TRUE]
<1>1. n \in MacType /\ n.q = m.q /\ On(n) = On(m)
  BY DEF MacOK, MacType, On
<1> HIDE DEF n
<1> QED
  BY <1>1, Quiet DEF InfScanStart, n

LEMMA DirectStartKeeps ==
  ASSUME NEW from, NEW m, MacOK(m, from)
  PROVE  MacOK(InfDirectCfgStart(m), from)
<1> DEFINE k == InfWiFiStop(m)
           n == [k EXCEPT !.state = "direct"]
<1>1. MacOK(k, from) /\ k.state = "off"
  BY StopKeeps
<1> HIDE DEF k
<1>2. n \in MacType /\ n.q = k.q /\ On(n) = On(k)
  BY <1>1 DEF MacOK, MacType, On
<1>3. InfDirectCfgStart(m) = n
  BY DEF InfDirectCfgStart, k
<1> HIDE DEF n
<1> QED
  BY <1>1, <1>2, <1>3, Quiet

(* An event is taken from the queue.                                       *)
LEMMA TakenKeeps ==
  ASSUME MacOK(mac, Believed), mac.q # <<>>
  PROVE  \E mid \in {0, 1} :
           /\ Step(Head(mac.q), Believed, mid) /\ MacOK(Taken, mid)
           /\ Taken.state = mac.state
<1>1. mac.q \in Seq(Events) /\ Tail(mac.q) \in Seq(Events) /\ mac \in MacType
  BY HeadTailProperties DEF MacOK, MacType
<1>2. PICK mid \in {0, 1} : /\ Step(Head(mac.q), Believed, mid)
                            /\ Alternates(Tail(mac.q), mid, On(mac))
  BY <1>1, AltTail DEF MacOK
<1>3. Taken \in MacType /\ Taken.q = Tail(mac.q) /\ Taken.state = mac.state
  BY <1>1 DEF Taken, MacType
<1> QED
  BY <1>2, <1>3 DEF MacOK, On

-----------------------------------------------------------------------------
(* The invariant implies what the run checks.                              *)
LEMMA InvImplies == Inv => LinkSettles
<1> SUFFICES ASSUME Inv PROVE LinkSettles
  OBVIOUS
<1>1. TypeOK
  <2>1. {ssid, bDhcp, changed} \subseteq BOOLEAN /\ {ScanFlag, smtconfigBegin} \subseteq {0, 1}
    BY DEF Inv, ParamType, AppType
  <2>2. mac \in [state : {"off", "joining", "ready", "on", "direct"}, mode : Modes,
                 scanning : BOOLEAN, q : Seq(Events)]
    BY DEF Inv, MacOK, MacType
  <2> QED
    BY <2>1, <2>2 DEF TypeOK, Inv, ParamType, NetType, AppType, DhcpStates
<1>2. Settled => (linked # "no" <=> LinkReady)
  <2> SUFFICES ASSUME Settled PROVE linked # "no" <=> LinkReady
    OBVIOUS
  <2>1. Believed = On(mac)
    BY AltEmpty DEF Settled, Inv, MacOK
  <2> QED
    BY <2>1 DEF On, LinkReady, Believed
<1>3. linked \in {"no", "up", "failed"} /\ moved \in Nat /\ pcbs \in [Servers -> Nat]
  BY DEF Inv, AppType, NetType
<1>4. StatusSettles
  BY <1>2, <1>3 DEF StatusSettles, Settled, Inv, StatusInv
<1>5. AddressSettles
  <2> SUFFICES ASSUME Settled
               PROVE  /\ up <=> addr # "none"
                      /\ LinkReady /\ addr = "none" => dhcp \notin {"off", "bound"}
                      /\ ~LinkReady => (addr = "none" /\ dhcp = "off") \/ moved > 0
                      /\ ~LinkReady /\ addr # "none" => dhcp # "off"
    BY DEF AddressSettles
  <2>1. moved = 0 \/ moved > 0
    BY <1>3
  <2> QED
    BY <1>2, <2>1 DEF Settled, Inv, NetInv, ClientInv
<1>6. ServersStopped
  <2>1. ASSUME NEW s \in Servers
        PROVE  /\ pcbs[s] <= moved + 1
               /\ Settled /\ ~LinkReady => pcbs[s] <= moved
               /\ softap = "none" /\ faults = 0 =>
                    /\ pcbs[s] <= 1
                    /\ Settled /\ ~LinkReady => pcbs[s] = 0
    <3>1. Known(s) /\ pcbs[s] \in Nat
      BY <1>3 DEF Inv, ServerInv
    <3>2. pcbs[s] <= moved + 1 /\ (Settled /\ ~LinkReady => pcbs[s] <= moved)
      BY <1>2, <1>3, <3>1 DEF Known
    <3>3. ASSUME softap = "none" /\ faults = 0
          PROVE  pcbs[s] <= 1 /\ (Settled /\ ~LinkReady => pcbs[s] = 0)
      <4>1. pcbs[s] = IF Socket[s] = "held" THEN 1 ELSE 0
        BY <3>3 DEF Alone, Inv, AloneInv
      <4>2. Socket[s] = "held" => linked = "up"
        BY <3>3 DEF Alone, Holding, Inv, AloneInv
      <4> QED
        BY <1>2, <4>1, <4>2
    <3> QED
      BY <3>2, <3>3
  <2> QED
    BY <2>1 DEF ServersStopped, Inv, ServerInv
<1> QED
  BY <1>1, <1>4, <1>5, <1>6 DEF LinkSettles

(* Initially.                                                              *)
LEMMA InitInv == Init => Inv
<1> SUFFICES ASSUME Init PROVE Inv
  OBVIOUS
<1>1. <<>> \in Seq(Events)
  BY EmptySeq
<1>2. mac \in MacType /\ mac.q = <<>> /\ mac.state = "off"
  BY <1>1 DEF Init, MacType, Modes
<1>3. Believed = 0 /\ On(mac) = 0
  BY <1>2 DEF Init, Believed, On
<1>4. MacOK(mac, Believed)
  BY <1>2, <1>3, AltEmpty DEF MacOK
<1>5. ParamType
  <2>1. ssid \in BOOLEAN /\ changed \in BOOLEAN
    BY DEF Init
  <2> QED
    BY <2>1 DEF Init, ParamType
<1>6. NetType
  <2>1. up \in BOOLEAN /\ twice \in BOOLEAN
    BY DEF Init
  <2>2. 0 \in 0..(TriesWrap - 1)
    BY TriesAssumption
  <2> QED
    BY <2>1, <2>2 DEF Init, NetType, DhcpStates
<1>7. AppType
  BY BoundsAssumption DEF Init, AppType, Statuses, Modes
<1>8. \A s \in Servers : Socket[s] = "null" /\ pcbs[s] = 0
  BY DEF Init
<1>9. "dnss" \in Servers
  BY DEF Servers
<1>10. StatusInv /\ NetInv /\ ClientInv
  BY <1>8, <1>9 DEF Init, StatusInv, NetInv, ClientInv
<1>11. ServerInv
  BY <1>8, <1>9 DEF Init, ServerInv, Known
<1>12. AloneInv
  BY <1>8 DEF Init, AloneInv, Holding, Setting
<1> QED
  BY <1>4, <1>5, <1>6, <1>7, <1>10, <1>11, <1>12 DEF Inv

-----------------------------------------------------------------------------
(* A step of anyone but the system manager and the DHCP client leaves what *)
(* is believed and the interface alone: the library and the mode remain.   *)
LEMMA OthersFrame ==
  ASSUME Inv, UNCHANGED <<sys, net, linked, moved, faults>>, ParamType', AppType',
         link_status' = "LINK_UP" <=> link_status = "LINK_UP",
         MacOK(mac', Believed),
         changed \/ Protocol' # Protocol \/ bDhcp' # bDhcp => changed',
         Alone' => /\ Alone
                   /\ Holding => Protocol' = "AP"
                   /\ Setting' => Protocol' = "STA" \/ mac'.state = "off"
  PROVE  Inv'
<1>1. Believed' = Believed
  BY DEF Believed
<1>2. NetType' /\ NetInv' /\ StatusInv'
  BY DEF Inv, net, client, servers, NetType, NetInv, StatusInv
<1>3. ClientInv'
  BY DEF Inv, net, client, ClientInv
<1>4. ServerInv'
  <2>1. ASSUME NEW s \in Servers PROVE Known(s)'
    <3>1. Known(s) /\ (changed \/ Protocol = "AP" => changed' \/ Protocol' = "AP")
      BY DEF Inv, ServerInv
    <3> QED
      BY <3>1 DEF Known, net, servers
  <2> QED
    BY <2>1 DEF Inv, net, servers, ServerInv
<1>5. AloneInv'
  <2>1. Holding' <=> Holding
    BY DEF Holding, net, servers
  <2> QED
    BY <2>1 DEF Inv, net, servers, AloneInv
<1> QED
  BY <1>1, <1>2, <1>3, <1>4, <1>5 DEF Inv

(* The library's own steps change its state, and its mode for no command.  *)
LEMMA MacFrame ==
  ASSUME Inv,
         UNCHANGED <<Protocol, bDhcp, DhcpTryTimes, changed, sys, net, app, at, arg, softap,
                     commands>>,
         ssid' \in BOOLEAN, losses' \in 0..MaxLosses, mac.state # "off", MacOK(mac', Believed)
  PROVE  Inv'
<1>1. ParamType' /\ AppType'
  BY DEF Inv, ParamType, AppType, app
<1>2. Alone' => /\ Alone
                /\ Holding => Protocol' = "AP"
                /\ Setting' => Protocol' = "STA" \/ mac'.state = "off"
  BY DEF Inv, AloneInv, Alone, Setting, app
<1>3. changed \/ Protocol' # Protocol \/ bDhcp' # bDhcp => changed'
  BY DEF Inv, ParamType
<1> QED
  BY <1>1, <1>2, <1>3, OthersFrame DEF app

(* Believed and actual link once nothing waits; who may set the mode then. *)
LEMMA Waiting ==
  ASSUME Inv, Alone, Holding
  PROVE  /\ Protocol = "AP" /\ Connected
         /\ SysWaits => ~Setting
<1>1. Protocol = "AP" /\ sys = "idle" /\ linked = "up" /\ Believed = 1
  BY DEF Inv, AloneInv, Believed
<1>2. Connected
  BY <1>1 DEF Inv, StatusInv, Connected
<1>3. ASSUME SysWaits, Setting PROVE FALSE
  <2>1. mac.q = <<>> /\ mac.state = "off"
    BY <1>1, <1>3 DEF SysWaits, Inv, AloneInv
  <2>2. Believed = On(mac)
    BY <2>1, AltEmpty DEF Inv, MacOK
  <2> QED
    BY <1>1, <2>1, <2>2 DEF On
<1> QED
  BY <1>1, <1>2, <1>3

LEMMA MacKeeps == ASSUME Inv, Mac PROVE Inv'
<1>0. mac \in MacType /\ MacOK(mac, Believed) /\ ssid \in BOOLEAN /\ losses \in 0..MaxLosses
  BY DEF Inv, MacOK, ParamType, AppType
<1>1. CASE Joined
  <2> DEFINE n == [mac EXCEPT !.state = "on"]
  <2>1. mac.state = "joining" /\ mac' = Post(n, "UP")
        /\ UNCHANGED <<param, sys, net, app, at, arg, softap, commands, losses>>
    BY <1>1 DEF Joined
  <2>2. n \in MacType /\ n.q = mac.q /\ Step("UP", On(mac), On(n)) /\ "UP" \in Events
    BY <1>0, <2>1 DEF MacType, On, Step, Events
  <2> HIDE DEF n
  <2>3. MacOK(mac', Believed)
    BY <1>0, <2>1, <2>2, PostKeeps
  <2> QED
    BY <1>0, <2>1, <2>3, MacFrame DEF param
<1>2. CASE JoinFails
  <2> DEFINE n == [mac EXCEPT !.state = "off"]
  <2>1. mac.state = "joining" /\ mac' = Post(n, "JOIN_FAIL")
        /\ UNCHANGED <<param, sys, net, app, at, arg, softap, commands, losses>>
    BY <1>2 DEF JoinFails
  <2>2. /\ n \in MacType /\ n.q = mac.q /\ Step("JOIN_FAIL", On(mac), On(n))
        /\ "JOIN_FAIL" \in Events
    BY <1>0, <2>1 DEF MacType, On, Step, Events
  <2> HIDE DEF n
  <2>3. MacOK(mac', Believed)
    BY <1>0, <2>1, <2>2, PostKeeps
  <2> QED
    BY <1>0, <2>1, <2>3, MacFrame DEF param
<1>3. CASE LinkLost
  <2> DEFINE n == [mac EXCEPT !.state = "joining"]
  <2>1. mac.state = "on" /\ mac' = Post(n, "DOWN") /\ losses < MaxLosses /\ losses' = losses + 1
        /\ UNCHANGED <<param, sys, net, app, at, arg, softap, commands>>
    BY <1>3 DEF LinkLost, LinkReady
  <2>2. n \in MacType /\ n.q = mac.q /\ Step("DOWN", On(mac), On(n)) /\ "DOWN" \in Events
    BY <1>0, <2>1 DEF MacType, On, Step, Events
  <2> HIDE DEF n
  <2>3. MacOK(mac', Believed)
    BY <1>0, <2>1, <2>2, PostKeeps
  <2>4. losses' \in 0..MaxLosses
    BY <1>0, <2>1, BoundsAssumption
  <2> QED
    BY <1>0, <2>1, <2>3, <2>4, MacFrame DEF param
<1>4. CASE ScanEnds
  <2> DEFINE n == [mac EXCEPT !.scanning = FALSE]
  <2>1. mac' = Post(n, "SCAN_DONE")
        /\ UNCHANGED <<param, sys, net, app, at, arg, softap, commands, losses>>
    BY <1>4 DEF ScanEnds
  <2>2. /\ n \in MacType /\ n.q = mac.q /\ n.state = mac.state
        /\ Step("SCAN_DONE", On(mac), On(n)) /\ "SCAN_DONE" \in Events
    BY <1>0 DEF MacType, On, Step, Events
  <2> HIDE DEF n
  <2>3. MacOK(mac', Believed) /\ mac'.state = mac.state
    BY <1>0, <2>1, <2>2, PostKeeps
  <2>4. ParamType' /\ AppType'
    BY <2>1 DEF Inv, ParamType, AppType, param, app
  <2>5. Alone' => /\ Alone
                  /\ Holding => Protocol' = "AP"
                  /\ Setting' => Protocol' = "STA" \/ mac'.state = "off"
    BY <2>1, <2>3 DEF Inv, AloneInv, Alone, Setting, param, app
  <2>6. changed \/ Protocol' # Protocol \/ bDhcp' # bDhcp => changed'
    BY <2>1 DEF Inv, ParamType, param
  <2> QED
    BY <2>1, <2>3, <2>4, <2>5, <2>6, OthersFrame DEF app
<1>5. CASE DirectCfgEnds
  <2> DEFINE n == [mac EXCEPT !.state = "ready"]
  <2>1. mac.state = "direct" /\ mac' = Post(n, "DIRECT_CFG_DONE") /\ ssid' = TRUE
        /\ UNCHANGED <<Protocol, bDhcp, DhcpTryTimes, changed, sys, net, app, at, arg, softap,
                       commands, losses>>
    BY <1>5 DEF DirectCfgEnds
  <2>2. /\ n \in MacType /\ n.q = mac.q /\ Step("DIRECT_CFG_DONE", On(mac), On(n))
        /\ "DIRECT_CFG_DONE" \in Events
    BY <1>0, <2>1 DEF MacType, On, Step, Events
  <2> HIDE DEF n
  <2>3. MacOK(mac', Believed)
    BY <1>0, <2>1, <2>2, PostKeeps
  <2>4. ssid' \in BOOLEAN
    BY <2>1
  <2> QED
    BY <1>0, <2>1, <2>3, <2>4, MacFrame
<1> QED
  BY <1>1, <1>2, <1>3, <1>4, <1>5 DEF Mac

-----------------------------------------------------------------------------
(* lwIP's DHCP client: once started it is never off by itself, and bound   *)
(* only with an address.                                                   *)
LEMMA ClientFrame ==
  ASSUME Inv, Client, dhcp # "off", dhcp' \in DhcpStates \ {"off"},
         tries' \in 0..(TriesWrap - 1),
         \/ up' = up /\ addr' = addr /\ dhcp' # "bound"
         \/ up' = FALSE /\ addr' = "none" /\ dhcp' # "bound"
         \/ up' = TRUE /\ addr' = "dhcp"
  PROVE  Inv'
<1>1. UNCHANGED <<param, mac, sys, servers, app, at, arg, softap, commands, losses>>
  BY DEF Client
<1>2. Believed' = Believed
  BY <1>1 DEF Believed, app
<1>3. ParamType' /\ AppType' /\ MacOK(mac', Believed')
  BY <1>1, <1>2 DEF Inv, ParamType, AppType, param, app
<1>4. NetType'
  <2>1. up' \in BOOLEAN /\ addr' \in {"none", "static", "dhcp"}
    BY DEF Inv, NetType
  <2> QED
    BY <1>1, <2>1 DEF Inv, NetType, servers
<1>5. NetInv'
  BY <1>1 DEF Inv, NetInv, app
<1>6. ClientInv'
  BY <1>1 DEF Inv, ClientInv, app, param
<1>7. StatusInv'
  BY <1>1 DEF Inv, StatusInv, app, servers
<1>8. ServerInv'
  <2>1. ASSUME NEW s \in Servers PROVE Known(s)'
    BY <1>1 DEF Inv, ServerInv, Known, app, servers, param
  <2> QED
    BY <1>1, <2>1 DEF Inv, ServerInv, app, servers, param
<1>9. AloneInv'
  BY <1>1 DEF Inv, AloneInv, Alone, Holding, Setting, app, servers, param
<1> QED
  BY <1>3, <1>4, <1>5, <1>6, <1>7, <1>8, <1>9 DEF Inv

(* A message is sent, and counted in a byte.                               *)
LEMMA SendsCounts ==
  ASSUME Inv, NEW s, Sends(s)
  PROVE  dhcp' = s /\ tries' \in 0..(TriesWrap - 1)
<1>1. tries \in Nat /\ TriesWrap \in Nat \ {0, 1, 2}
  BY TriesAssumption DEF Inv, NetType
<1>2. (tries + 1) % TriesWrap \in 0..(TriesWrap - 1)
  BY <1>1
<1>3. 1 \in 0..(TriesWrap - 1)
  BY <1>1
<1> QED
  BY <1>2, <1>3 DEF Sends

LEMMA SendsFrame ==
  ASSUME Inv, Client, dhcp # "off", NEW s \in DhcpStates \ {"off", "bound"}, Sends(s),
         UNCHANGED <<up, addr>>
  PROVE  Inv'
BY SendsCounts, ClientFrame

LEMMA DiscoverFrame ==
  ASSUME Inv, Client, dhcp # "off", Discover PROVE Inv'
<1>1. Sends("selecting") /\ up' = FALSE /\ addr' = "none"
  BY DEF Discover
<1>2. dhcp' = "selecting" /\ tries' \in 0..(TriesWrap - 1)
  BY <1>1, SendsCounts
<1> QED
  BY <1>1, <1>2, ClientFrame DEF DhcpStates

LEMMA BindFrame ==
  ASSUME Inv, Client, dhcp # "off", Bind PROVE Inv'
<1>1. 0 \in 0..(TriesWrap - 1)
  BY TriesAssumption
<1> QED
  BY <1>1, ClientFrame DEF Bind, DhcpStates

LEMMA DhcpKeeps ==
  ASSUME Inv, DhcpRecv \/ dhcp_timeout \/ dhcp_coarse_tmr PROVE Inv'
<1>1. CASE dhcp_handle_offer
  <2>1. Client /\ dhcp # "off" /\ UNCHANGED <<up, addr>>
    BY <1>1 DEF dhcp_handle_offer, Hears
  <2>2. CASE Sends("requesting")
    BY <2>1, <2>2, SendsFrame DEF DhcpStates
  <2>3. CASE dhcp' = "stalled" /\ UNCHANGED tries
    BY <2>1, <2>3, ClientFrame DEF DhcpStates, Inv, NetType
  <2> QED
    BY <1>1, <2>2, <2>3 DEF dhcp_handle_offer
<1>2. CASE dhcp_handle_ack
  <2>1. Client /\ dhcp # "off"
    BY <1>2 DEF dhcp_handle_ack, Hears
  <2> QED
    BY <1>2, <2>1, SendsFrame, BindFrame DEF dhcp_handle_ack, DhcpStates
<1>3. CASE dhcp_handle_nak
  BY <1>3, DiscoverFrame DEF dhcp_handle_nak, Hears
<1>4. CASE dhcp_arp_reply
  BY <1>4, SendsFrame DEF dhcp_arp_reply, Hears, DhcpStates
<1>5. CASE dhcp_timeout
  <2>1. Client
    BY <1>5 DEF dhcp_timeout
  <2>2. \/ /\ dhcp # "off" /\ UNCHANGED <<up, addr>>
           /\ \E s \in {"selecting", "requesting", "checking", "renewing", "rebinding"} :
                Sends(s)
        \/ dhcp # "off" /\ (Bind \/ Discover)
    BY <1>5 DEF dhcp_timeout
  <2> QED
    BY <2>1, <2>2, SendsFrame, BindFrame, DiscoverFrame DEF DhcpStates
<1>6. CASE dhcp_coarse_tmr
  BY <1>6, SendsFrame DEF dhcp_coarse_tmr, DhcpStates
<1> QED
  BY <1>1, <1>2, <1>3, <1>4, <1>5, <1>6 DEF DhcpRecv

-----------------------------------------------------------------------------
(* SysMgmtMain.                                                            *)

(* What taking an event means: the level it leaves the link on.            *)
LEMMA TakesMeans ==
  ASSUME Inv, NEW e \in Events, Takes(e)
  PROVE  /\ sys = "idle" /\ UNCHANGED <<at, arg, softap, commands, losses>>
         /\ \E mid \in {0, 1} : Step(e, Believed, mid) /\ MacOK(Taken, mid)
         /\ Taken.state = mac.state
BY TakenKeeps DEF Takes, Inv

(* The servers start on control blocks that no one held of this link's.    *)
LEMMA StartServersMeans ==
  ASSUME Inv, NEW ok \in [Servers -> BOOLEAN], StartServers(ok),
         sys = "idle" => linked = "no"
  PROVE  /\ pcbs' \in [Servers -> Nat] /\ Socket' \in [Servers -> {"null", "held", "freed"}]
         /\ twice' = twice
         /\ \A s \in Servers :
              /\ Socket'[s] = IF ok[s] THEN "held" ELSE "null"
              /\ pcbs'[s] = pcbs[s] + IF ok[s] THEN 1 ELSE 0
              /\ pcbs[s] \in Nat /\ pcbs[s] <= moved
<1>1. pcbs \in [Servers -> Nat]
  BY DEF Inv, NetType
<1>2. \A s \in Servers : pcbs[s] <= moved
  BY DEF Inv, ServerInv, Known
<1>3. pcbs' \in [Servers -> Nat]
  <2>1. \A s \in Servers : pcbs[s] + (IF ok[s] THEN 1 ELSE 0) \in Nat
    BY <1>1
  <2> QED
    BY <2>1 DEF StartServers
<1> QED
  BY <1>1, <1>2, <1>3 DEF StartServers

(* The end of L2LinkUp: the servers start, and the link is believed up.    *)
LEMMA UpEnds ==
  ASSUME Inv, L2LinkUpEnds, sys' = "idle",
         UNCHANGED <<Protocol, ssid, bDhcp, DhcpTryTimes, at, arg, softap, commands, losses,
                     client>>,
         changed' \in BOOLEAN, changed /\ linked # "no" => changed',
         up' = TRUE, addr' \in {"static", "dhcp"},
         sys = "idle" => linked = "no", MacOK(mac', 1), mac'.state = mac.state
  PROVE  Inv'
<1>0. UNCHANGED <<ScanFlag, moved>>
  BY DEF L2LinkUpEnds
<1>1. /\ linked' \in {"up", "failed"}
      /\ link_status' \in Statuses /\ smtconfigBegin' \in {0, 1}
      /\ link_status' = "LINK_UP" <=> linked' = "up"
      /\ faults' \in 0..MaxFaults
  <2>1. link_status # "LINK_UP" /\ link_status \in Statuses /\ smtconfigBegin \in {0, 1}
        /\ faults \in 0..MaxFaults
    BY DEF Inv, StatusInv, AppType
  <2>2. CallBackUp \/ NotCalledBack
    BY DEF L2LinkUpEnds
  <2>3. faults' \in 0..MaxFaults
    BY <2>1, BoundsAssumption DEF L2LinkUpEnds
  <2> QED
    BY <2>1, <2>2, <2>3 DEF CallBackUp, NotCalledBack, Statuses
<1>2. Believed' = 1
  BY <1>1 DEF Believed
<1>3. ParamType' /\ AppType'
  BY <1>0, <1>1 DEF Inv, ParamType, AppType
<1>4. NetInv'
  BY <1>1 DEF NetInv
<1>5. ClientInv'
  BY <1>0, <1>1 DEF Inv, ClientInv, client
<1>6. /\ pcbs' \in [Servers -> Nat] /\ Socket' \in [Servers -> {"null", "held", "freed"}]
      /\ twice' \in BOOLEAN
      /\ StatusInv' /\ ServerInv' /\ AloneInv'
  <2>1. CASE Protocol = "STA"
    <3>1. CallBackUp /\ UNCHANGED <<servers, faults>>
      BY <2>1 DEF L2LinkUpEnds
    <3>2. linked' = "up" /\ Protocol' # "AP" /\ moved \in Nat
      BY <2>1, <3>1 DEF CallBackUp, Inv, AppType
    <3>3. pcbs' = pcbs /\ Socket' = Socket /\ twice' = twice
      BY <3>1 DEF servers
    <3>4. ASSUME NEW s \in Servers PROVE pcbs[s] <= moved /\ Known(s)'
      <4>1. Known(s)
        BY DEF Inv, ServerInv
      <4> QED
        BY <1>0, <3>3, <4>1 DEF Known
    <3>5. ServerInv'
      BY <1>0, <3>2, <3>3, <3>4 DEF Inv, ServerInv
    <3>6. AloneInv'
      <4>1. Alone => ~Holding
        BY <2>1 DEF Inv, AloneInv
      <4> QED
        BY <2>1, <3>1, <3>2, <3>3, <4>1 DEF Inv, AloneInv, Alone, Holding
    <3>7. StatusInv'
      BY <1>1, <3>2 DEF StatusInv
    <3> QED
      BY <3>3, <3>5, <3>6, <3>7 DEF Inv, NetType
  <2>2. CASE Protocol # "STA"
    <3>0. Protocol = "AP"
      BY <2>2 DEF Inv, ParamType, Modes
    <3>1. PICK ok \in [Servers -> BOOLEAN] :
            /\ StartServers(ok)
            /\ faults' = IF \A s \in Servers : ok[s] THEN faults ELSE faults + 1
            /\ IF ok["dnss"] THEN CallBackUp ELSE NotCalledBack
      BY <2>2 DEF L2LinkUpEnds
    <3>2. /\ pcbs' \in [Servers -> Nat] /\ Socket' \in [Servers -> {"null", "held", "freed"}]
          /\ twice' = twice
          /\ \A s \in Servers :
               /\ Socket'[s] = IF ok[s] THEN "held" ELSE "null"
               /\ pcbs'[s] = pcbs[s] + IF ok[s] THEN 1 ELSE 0
               /\ pcbs[s] \in Nat /\ pcbs[s] <= moved
      BY <3>1, StartServersMeans
    <3>3. "dnss" \in Servers /\ moved \in Nat /\ faults \in Nat
      BY DEF Servers, Inv, AppType
    <3>4. StatusInv'
      BY <1>1, <3>1, <3>2, <3>3 DEF StatusInv, CallBackUp, NotCalledBack
    <3>5. ASSUME NEW s \in Servers PROVE (Socket'[s] = "held" => pcbs'[s] > 0) /\ Known(s)'
      <4>1. CASE ok[s]
        <5>1. Socket'[s] = "held" /\ pcbs'[s] = pcbs[s] + 1 /\ pcbs[s] \in Nat /\ pcbs[s] <= moved
          BY <3>2, <4>1
        <5>2. pcbs'[s] <= moved \/ pcbs'[s] = moved + 1
          BY <3>3, <5>1
        <5> QED
          BY <1>0, <1>1, <3>0, <5>1, <5>2 DEF Known
      <4>2. CASE ~ok[s]
        <5>1. Socket'[s] = "null" /\ pcbs'[s] = pcbs[s] /\ pcbs[s] <= moved
          BY <3>2, <4>2
        <5> QED
          BY <1>0, <5>1 DEF Known
      <4> QED
        BY <4>1, <4>2
    <3>6. ServerInv'
      BY <1>0, <3>2, <3>3, <3>5 DEF Inv, ServerInv
    <3>7. AloneInv'
      <4> SUFFICES ASSUME Alone' PROVE AloneInv'
        BY DEF AloneInv
      <4>1. Alone /\ \A s \in Servers : ok[s]
        BY <3>1, <3>3 DEF Alone
      <4>2. ~Holding /\ \A s \in Servers : pcbs[s] = 0
        <5>1. ~Holding
          BY <4>1 DEF Inv, AloneInv
        <5> QED
          BY <4>1, <5>1 DEF Inv, AloneInv, Holding
      <4>3. \A s \in Servers : Socket'[s] = "held" /\ pcbs'[s] = 1
        BY <3>2, <4>1, <4>2
      <4>4. linked' = "up"
        BY <3>1, <3>3, <4>1 DEF CallBackUp
      <4>5. Setting' => Protocol' = "STA" \/ mac'.state = "off"
        BY <4>1 DEF Inv, AloneInv, Setting
      <4> QED
        BY <3>0, <4>3, <4>4, <4>5 DEF AloneInv
    <3>8. twice' \in BOOLEAN
      BY <3>2 DEF Inv, NetType
    <3> QED
      BY <3>2, <3>4, <3>6, <3>7, <3>8
  <2> QED
    BY <2>1, <2>2
<1>7. NetType'
  <2>1. up' \in BOOLEAN /\ addr' \in {"none", "static", "dhcp"}
    OBVIOUS
  <2> QED
    BY <1>6, <2>1 DEF Inv, NetType, client
<1> QED
  BY <1>2, <1>3, <1>4, <1>5, <1>6, <1>7 DEF Inv

LEMMA UpStaticKeeps == ASSUME Inv, HandleUpStatic PROVE Inv'
<1>0. /\ Takes("UP") /\ mac' = Taken /\ up' = TRUE /\ addr' = "static" /\ L2LinkUpEnds
      /\ changed' = FALSE /\ UNCHANGED <<Protocol, ssid, bDhcp, DhcpTryTimes, sys, client>>
  BY DEF HandleUpStatic, KeepsMode
<1>1. PICK mid \in {0, 1} : Step("UP", Believed, mid) /\ MacOK(Taken, mid)
  BY <1>0, TakesMeans DEF Events
<1>2. /\ sys = "idle" /\ UNCHANGED <<at, arg, softap, commands, losses>>
      /\ Taken.state = mac.state
  BY <1>0, TakesMeans DEF Events
<1>3. Believed = 0 /\ MacOK(mac', 1)
  BY <1>0, <1>1 DEF Step
<1>4. linked = "no"
  BY <1>3 DEF Believed
<1>5. changed' \in BOOLEAN
  BY <1>0
<1> QED
  BY <1>0, <1>2, <1>3, <1>4, <1>5, UpEnds

LEMMA UpDhcpKeeps == ASSUME Inv, HandleUpDhcp PROVE Inv'
<1>0. /\ Takes("UP") /\ mac' = Taken /\ Protocol = "STA" /\ bDhcp /\ sys' = "dhcp"
      /\ linked' = "up" /\ changed' = FALSE
      /\ UNCHANGED <<Protocol, ssid, bDhcp, DhcpTryTimes>>
      /\ UNCHANGED <<up, addr, servers, link_status, ScanFlag, smtconfigBegin, moved>>
  BY DEF HandleUpDhcp, KeepsMode
<1>1. PICK mid \in {0, 1} : Step("UP", Believed, mid) /\ MacOK(Taken, mid)
  BY <1>0, TakesMeans DEF Events
<1>2. /\ sys = "idle" /\ UNCHANGED <<at, arg, softap, commands, losses>>
      /\ Taken.state = mac.state
  BY <1>0, TakesMeans DEF Events
<1>3. Believed = 0 /\ linked = "no" /\ Believed' = 1 /\ MacOK(mac', Believed')
  BY <1>0, <1>1 DEF Step, Believed
<1>4. /\ dhcp' \in {"off", "selecting"} /\ tries' \in 0..(TriesWrap - 1)
      /\ faults' \in 0..MaxFaults
      /\ faults' = 0 => faults = 0
  <2>1. faults \in 0..MaxFaults /\ 1 \in 0..(TriesWrap - 1)
    BY TriesAssumption DEF Inv, AppType
  <2>2. CASE dhcp' = "selecting" /\ tries' = 1 /\ UNCHANGED faults
    BY <2>1, <2>2
  <2>3. CASE /\ dhcp' = "off" /\ tries' \in 0..(TriesWrap - 1)
             /\ faults' = faults + 1 /\ faults' <= MaxFaults
    BY <2>1, <2>3, BoundsAssumption
  <2> QED
    BY <2>2, <2>3 DEF HandleUpDhcp
<1>5. ParamType' /\ AppType'
  <2>1. changed' \in BOOLEAN
    BY <1>0
  <2> QED
    BY <1>0, <1>2, <1>4, <2>1 DEF Inv, ParamType, AppType
<1>6. NetType'
  BY <1>0, <1>4 DEF Inv, NetType, DhcpStates, servers
<1>7. StatusInv' /\ NetInv'
  BY <1>0, <1>2, <1>3, <1>4 DEF Inv, StatusInv, NetInv, servers
<1>8. ClientInv'
  BY <1>0 DEF ClientInv
<1>9. ServerInv'
  <2>1. ASSUME NEW s \in Servers PROVE Known(s)'
    BY <1>0, <1>3 DEF Inv, ServerInv, Known, servers
  <2> QED
    BY <1>0, <2>1 DEF Inv, ServerInv, servers
<1>10. AloneInv'
  <2>1. Alone' => Alone /\ ~Holding
    BY <1>2, <1>3, <1>4 DEF Alone, Inv, AloneInv
  <2> QED
    BY <1>0, <1>2, <2>1 DEF Inv, AloneInv, Setting, Holding, servers
<1> QED
  BY <1>3, <1>5, <1>6, <1>7, <1>8, <1>9, <1>10 DEF Inv

LEMMA GivesUpKeeps == ASSUME Inv, DhcpGivesUp PROVE Inv'
<1>0. /\ sys = "dhcp" /\ dhcp' = "off" /\ tries' = 0 /\ mac' = Post(mac, "DHCP_TIMEOUT")
      /\ sys' = "late"
      /\ UNCHANGED <<param, up, addr, servers, app, at, arg, softap, commands, losses>>
  BY DEF DhcpGivesUp, dhcp_stop
<1>1. linked = "up" /\ Believed = 1 /\ Believed' = 1
  BY <1>0 DEF Believed, Inv, StatusInv, app
<1>2. MacOK(mac', Believed') /\ mac'.state = mac.state
  <2>1. Step("DHCP_TIMEOUT", On(mac), On(mac)) /\ "DHCP_TIMEOUT" \in Events /\ mac \in MacType
    BY DEF Step, Events, Inv, MacOK
  <2> QED
    BY <1>0, <1>1, <2>1, PostKeeps DEF Inv
<1>3. ParamType' /\ AppType'
  BY <1>0 DEF Inv, ParamType, AppType, param, app
<1>4. NetType'
  <2>1. 0 \in 0..(TriesWrap - 1)
    BY TriesAssumption
  <2> QED
    BY <1>0, <2>1 DEF Inv, NetType, DhcpStates, servers
<1>5. StatusInv' /\ NetInv' /\ ClientInv'
  BY <1>0, <1>1 DEF Inv, StatusInv, NetInv, ClientInv, app, servers
<1>6. ServerInv'
  <2>1. ASSUME NEW s \in Servers PROVE Known(s)'
    BY <1>0 DEF Inv, ServerInv, Known, app, servers
  <2> QED
    BY <1>0, <2>1 DEF Inv, ServerInv, app, servers
<1>7. AloneInv'
  <2>1. Alone => ~Holding
    BY <1>0 DEF Inv, AloneInv
  <2> QED
    BY <1>0, <1>2, <2>1 DEF Inv, AloneInv, Alone, Setting, Holding, app, servers, param
<1> QED
  BY <1>2, <1>3, <1>4, <1>5, <1>6, <1>7 DEF Inv

LEMMA LateKeeps == ASSUME Inv, DhcpLate PROVE Inv'
<1>0. /\ sys = "late" /\ up' = TRUE /\ addr' = "static" /\ L2LinkUpEnds /\ sys' = "idle"
      /\ UNCHANGED <<Protocol, ssid, bDhcp, DhcpTryTimes, changed, mac, client, at, arg,
                     softap, commands, losses>>
  BY DEF DhcpLate, param
<1>1. linked = "up" /\ MacOK(mac', 1)
  BY <1>0 DEF Believed, Inv, StatusInv
<1>2. changed' \in BOOLEAN /\ (changed /\ linked # "no" => changed')
  BY <1>0 DEF Inv, ParamType
<1> QED
  BY <1>0, <1>1, <1>2, UpEnds

LEMMA GotKeeps == ASSUME Inv, DhcpGot PROVE Inv'
<1>0. /\ sys = "dhcp" /\ addr # "none" /\ up' = TRUE /\ L2LinkUpEnds /\ sys' = "idle"
      /\ UNCHANGED <<Protocol, ssid, bDhcp, DhcpTryTimes, changed, mac, addr, client, at, arg,
                     softap, commands, losses>>
  BY DEF DhcpGot, param
<1>1. linked = "up" /\ MacOK(mac', 1)
  BY <1>0 DEF Believed, Inv, StatusInv
<1>2. changed' \in BOOLEAN /\ (changed /\ linked # "no" => changed')
  BY <1>0 DEF Inv, ParamType
<1>3. addr' \in {"static", "dhcp"}
  BY <1>0 DEF Inv, NetType
<1> QED
  BY <1>0, <1>1, <1>2, <1>3, UpEnds

(* L2LinkDown: what L2LinkUp began ends, but for a change of mode.         *)
LEMMA StopServersMeans ==
  ASSUME Inv, StopServers
  PROVE  /\ pcbs' \in [Servers -> Nat] /\ Socket' \in [Servers -> {"null", "held", "freed"}]
         /\ \A s \in Servers :
              /\ pcbs[s] \in Nat /\ Socket'[s] # "held"
              /\ pcbs'[s] = IF Socket[s] = "held" THEN pcbs[s] - 1 ELSE pcbs[s]
         /\ twice' => twice \/ Socket["dnss"] = "freed"
         /\ twice' \in BOOLEAN
<1>1. /\ pcbs \in [Servers -> Nat]
      /\ \A s \in Servers : Socket[s] = "held" => pcbs[s] > 0
  BY DEF Inv, NetType, ServerInv
<1>2. pcbs' \in [Servers -> Nat]
  <2>1. \A s \in Servers : pcbs[s] - (IF Socket[s] = "held" THEN 1 ELSE 0) \in Nat
    BY <1>1
  <2> QED
    BY <2>1 DEF StopServers
<1>3. \A s \in Servers : pcbs'[s] = IF Socket[s] = "held" THEN pcbs[s] - 1 ELSE pcbs[s]
  BY <1>1 DEF StopServers
<1>4. Socket' \in [Servers -> {"null", "held", "freed"}]
      /\ \A s \in Servers : Socket'[s] # "held"
  BY DEF StopServers
<1>5. (twice' => twice \/ Socket["dnss"] = "freed") /\ twice' \in BOOLEAN
  BY DEF StopServers, Inv, NetType
<1> QED
  BY <1>1, <1>2, <1>3, <1>4, <1>5

LEMMA DownKeeps == ASSUME Inv, HandleDown PROVE Inv'
<1>0. /\ Takes("DOWN") /\ mac' = Taken /\ up' = FALSE /\ addr' = "none"
      /\ link_status' = "LINK_DOWN" /\ linked' = "no"
      /\ moved' = IF changed THEN moved + 1 ELSE moved
      /\ UNCHANGED <<param, sys, ScanFlag, smtconfigBegin, faults>>
  BY DEF HandleDown
<1>1. PICK mid \in {0, 1} : Step("DOWN", Believed, mid) /\ MacOK(Taken, mid)
  BY <1>0, TakesMeans DEF Events
<1>2. /\ sys = "idle" /\ sys' = "idle" /\ UNCHANGED <<at, arg, softap, commands, losses>>
      /\ Taken.state = mac.state
  BY <1>0, TakesMeans DEF Events
<1>3. Believed = 1 /\ linked # "no" /\ Believed' = 0 /\ MacOK(mac', Believed')
  BY <1>0, <1>1, <1>2 DEF Step, Believed
<1>4. moved \in Nat /\ moved' \in Nat /\ moved' >= moved /\ (changed => moved' > 0)
      /\ changed \in BOOLEAN
  BY <1>0 DEF Inv, AppType, ParamType
<1>5. /\ dhcp' \in DhcpStates /\ tries' \in 0..(TriesWrap - 1)
      /\ dhcp' # "off" => dhcp # "off" /\ ~(Protocol = "STA" /\ bDhcp)
  <2>1. CASE Protocol = "STA" /\ bDhcp
    BY <2>1, TriesAssumption DEF HandleDown, dhcp_stop, DhcpStates
  <2>2. CASE ~(Protocol = "STA" /\ bDhcp)
    BY <2>2 DEF HandleDown, client, Inv, NetType
  <2> QED
    BY <2>1, <2>2
<1>6. ParamType' /\ AppType'
  BY <1>0, <1>2, <1>4 DEF Inv, ParamType, AppType, Statuses, param
<1>7. /\ pcbs' \in [Servers -> Nat] /\ Socket' \in [Servers -> {"null", "held", "freed"}]
      /\ twice' \in BOOLEAN
      /\ ServerInv'
      /\ AloneInv'
  <2>1. CASE Protocol = "AP"
    <3>1. StopServers
      BY <2>1 DEF HandleDown
    <3>2. ASSUME NEW s \in Servers PROVE pcbs'[s] <= moved'
      <4>1. /\ pcbs[s] \in Nat
            /\ pcbs'[s] = IF Socket[s] = "held" THEN pcbs[s] - 1 ELSE pcbs[s]
        BY <3>1, StopServersMeans
      <4>2. pcbs[s] <= moved \/ (pcbs[s] = moved + 1 /\ Socket[s] = "held")
        BY DEF Inv, ServerInv, Known
      <4> QED
        BY <1>4, <4>1, <4>2
    <3>3. twice' => moved' > 0
      <4>1. twice' => twice \/ Socket["dnss"] = "freed"
        BY <3>1, StopServersMeans
      <4>2. Socket["dnss"] = "freed" => changed
        BY <1>2, <1>3, <2>1 DEF Inv, ServerInv
      <4> QED
        BY <1>4, <4>1, <4>2 DEF Inv, ServerInv
    <3>4. ServerInv'
      <4>1. \A s \in Servers : Socket'[s] # "held"
        BY <3>1, StopServersMeans
      <4> QED
        BY <1>0, <3>2, <3>3, <4>1 DEF ServerInv, Known
    <3>5. AloneInv'
      <4> SUFFICES ASSUME Alone' PROVE AloneInv'
        BY DEF AloneInv
      <4>1. Alone
        BY <1>0, <1>2 DEF Alone
      <4>2. \A s \in Servers : Socket'[s] # "held" /\ pcbs'[s] = 0
        <5>1. \A s \in Servers : pcbs[s] = IF Socket[s] = "held" THEN 1 ELSE 0
          BY <4>1 DEF Inv, AloneInv
        <5>2. \A s \in Servers :
                /\ Socket'[s] # "held"
                /\ pcbs'[s] = IF Socket[s] = "held" THEN pcbs[s] - 1 ELSE pcbs[s]
          BY <3>1, StopServersMeans
        <5> QED
          BY <5>1, <5>2
      <4>3. Setting' => Protocol' = "STA" \/ mac'.state = "off"
        BY <1>0, <1>2, <4>1 DEF Inv, AloneInv, Setting, param
      <4> QED
        BY <1>0, <4>2, <4>3 DEF AloneInv, Holding
    <3> QED
      BY <3>1, <3>4, <3>5, StopServersMeans
  <2>2. CASE Protocol # "AP"
    <3>1. pcbs' = pcbs /\ Socket' = Socket /\ twice' = twice
      BY <2>2 DEF HandleDown, servers
    <3>2. ASSUME NEW s \in Servers PROVE Known(s)'
      <4>1. pcbs[s] \in Nat /\ Known(s)
        BY DEF Inv, NetType, ServerInv
      <4>2. CASE changed
        <5>1. moved' = moved + 1
          BY <1>0, <4>2
        <5> QED
          BY <1>4, <3>1, <4>1, <5>1 DEF Known
      <4>3. CASE ~changed
        <5>1. moved' = moved /\ pcbs[s] <= moved
          BY <1>0, <2>2, <4>1, <4>3 DEF Known
        <5> QED
          BY <3>1, <5>1 DEF Known
      <4> QED
        BY <4>2, <4>3
    <3>3. ServerInv'
      BY <1>0, <1>4, <3>1, <3>2 DEF Inv, ServerInv
    <3>4. AloneInv'
      <4>1. Alone => ~Holding
        BY <2>2 DEF Inv, AloneInv
      <4> QED
        BY <1>0, <1>2, <3>1, <4>1 DEF Inv, AloneInv, Alone, Holding, Setting, param
    <3> QED
      BY <3>1, <3>3, <3>4 DEF Inv, NetType
  <2> QED
    BY <2>1, <2>2
<1>8. NetType'
  <2>1. up' \in BOOLEAN
    BY <1>0
  <2> QED
    BY <1>0, <1>2, <1>5, <1>7, <2>1 DEF NetType
<1>9. StatusInv' /\ NetInv'
  BY <1>0, <1>2 DEF StatusInv, NetInv
<1>10. ClientInv'
  <2> SUFFICES ASSUME moved' = 0 PROVE dhcp' = "off" /\ addr' = "none"
    BY DEF ClientInv
  <2>1. ~changed /\ moved = 0
    BY <1>0, <1>4
  <2>2. dhcp # "off" => Protocol = "STA" /\ bDhcp
    BY <2>1 DEF Inv, ClientInv
  <2> QED
    BY <1>0, <1>5, <2>2
<1> QED
  BY <1>3, <1>6, <1>7, <1>8, <1>9, <1>10 DEF Inv

(* An event that reports no change of the link: what is believed stays.    *)
LEMMA SameBelief ==
  ASSUME Inv, NEW e \in Events \ {"UP", "DOWN"}, Takes(e), MacOK(mac', Believed),
         UNCHANGED <<ssid, DhcpTryTimes, sys, net, smtconfigBegin, linked, moved, faults>>,
         link_status' \in Statuses, ScanFlag' \in {0, 1},
         link_status' = "LINK_UP" <=> link_status = "LINK_UP",
         Protocol' \in Modes, bDhcp' \in BOOLEAN, changed' \in BOOLEAN,
         changed \/ Protocol' # Protocol \/ bDhcp' # bDhcp => changed',
         Alone /\ Holding => Protocol' = Protocol,
         Protocol' = "STA" \/ (Protocol' = Protocol /\ mac'.state = mac.state)
  PROVE  Inv'
<1>1. sys = "idle" /\ UNCHANGED <<at, arg, softap, commands, losses>>
  BY TakesMeans
<1>2. ParamType' /\ AppType'
  BY <1>1 DEF Inv, ParamType, AppType
<1>3. Alone' => /\ Alone
                /\ Holding => Protocol' = "AP"
                /\ Setting' => Protocol' = "STA" \/ mac'.state = "off"
  BY <1>1 DEF Inv, AloneInv, Alone, Setting
<1> QED
  BY <1>2, <1>3, OthersFrame

(* ... when the mode stays too. *)
LEMMA SameMode ==
  ASSUME Inv, UNCHANGED param
  PROVE  /\ Protocol' \in Modes /\ bDhcp' \in BOOLEAN /\ changed' \in BOOLEAN
         /\ changed \/ Protocol' # Protocol \/ bDhcp' # bDhcp => changed'
         /\ Protocol' = Protocol /\ ssid' = ssid /\ DhcpTryTimes' = DhcpTryTimes
         /\ ParamType'
BY DEF Inv, ParamType, param

LEMMA OtherMode ==
  ASSUME Inv, NEW p \in Modes, NEW d \in BOOLEAN, SetsMode(p, d)
  PROVE  /\ Protocol' \in Modes /\ bDhcp' \in BOOLEAN /\ changed' \in BOOLEAN
         /\ changed \/ Protocol' # Protocol \/ bDhcp' # bDhcp => changed'
         /\ Protocol' = p
<1>1. Protocol' = p /\ bDhcp' = d
  BY DEF SetsMode
<1>2. changed' \in BOOLEAN /\ (changed \/ p # Protocol \/ d # bDhcp => changed')
  BY DEF SetsMode
<1> QED
  BY <1>1, <1>2

(* The other events.  A join fails, and a configuration ends, without a    *)
(* link; so no server runs when the latter sets the mode.                  *)
LEMMA JoinFailKeeps == ASSUME Inv, HandleJoinFail PROVE Inv'
<1>0. /\ Takes("JOIN_FAIL") /\ mac' = Taken /\ link_status' = "JOIN_FAIL"
      /\ UNCHANGED <<param, sys, net, ScanFlag, smtconfigBegin, linked, moved, faults>>
  BY DEF HandleJoinFail
<1>1. PICK mid \in {0, 1} : Step("JOIN_FAIL", Believed, mid) /\ MacOK(Taken, mid)
  BY <1>0, TakesMeans DEF Events
<1>2. Believed = 0 /\ mid = Believed
  BY <1>1 DEF Step
<1>3. link_status # "LINK_UP"
  BY <1>2 DEF Believed, Inv, StatusInv
<1>4. mac'.state = mac.state
  BY <1>0, TakesMeans DEF Events
<1>5. "JOIN_FAIL" \in Events \ {"UP", "DOWN"} /\ link_status' \in Statuses /\ MacOK(mac', Believed)
  BY <1>0, <1>1, <1>2 DEF Events, Statuses
<1>6. ScanFlag' \in {0, 1} /\ (link_status' = "LINK_UP" <=> link_status = "LINK_UP")
  BY <1>0, <1>3 DEF Inv, AppType
<1> QED
  BY <1>0, <1>4, <1>5, <1>6, SameMode, SameBelief

LEMMA DhcpTimeoutKeeps == ASSUME Inv, HandleDhcpTimeout PROVE Inv'
<1>0. /\ Takes("DHCP_TIMEOUT") /\ mac' = Taken
      /\ link_status' = IF link_status = "LINK_UP" THEN "LINK_UP" ELSE "DHCP_FAIL"
      /\ UNCHANGED <<param, sys, net, ScanFlag, smtconfigBegin, linked, moved, faults>>
  BY DEF HandleDhcpTimeout
<1>1. PICK mid \in {0, 1} : Step("DHCP_TIMEOUT", Believed, mid) /\ MacOK(Taken, mid)
  BY <1>0, TakesMeans DEF Events
<1>2. mid = Believed
  BY <1>1 DEF Step
<1>3. mac'.state = mac.state
  BY <1>0, TakesMeans DEF Events
<1>4. "DHCP_TIMEOUT" \in Events \ {"UP", "DOWN"} /\ link_status' \in Statuses
      /\ MacOK(mac', Believed)
  BY <1>0, <1>1, <1>2 DEF Events, Statuses
<1>5. ScanFlag' \in {0, 1}
  BY <1>0 DEF Inv, AppType
<1>6. link_status' = "LINK_UP" <=> link_status = "LINK_UP"
  BY <1>0
<1> QED
  BY <1>0, <1>3, <1>4, <1>5, <1>6, SameMode, SameBelief

LEMMA ScanDoneKeeps == ASSUME Inv, HandleScanDone PROVE Inv'
<1>0. /\ Takes("SCAN_DONE") /\ mac' = Taken /\ ScanFlag' = 1
      /\ link_status' = IF link_status = "LINK_UP" THEN "LINK_UP"
                        ELSE IF ssid THEN "SCAN_DONE" ELSE "LINK_DOWN"
      /\ UNCHANGED <<param, sys, net, smtconfigBegin, linked, moved, faults>>
  BY DEF HandleScanDone
<1>1. PICK mid \in {0, 1} : Step("SCAN_DONE", Believed, mid) /\ MacOK(Taken, mid)
  BY <1>0, TakesMeans DEF Events
<1>2. mid = Believed
  BY <1>1 DEF Step
<1>3. mac'.state = mac.state
  BY <1>0, TakesMeans DEF Events
<1>4. "SCAN_DONE" \in Events \ {"UP", "DOWN"} /\ link_status' \in Statuses
      /\ MacOK(mac', Believed)
  BY <1>0, <1>1, <1>2 DEF Events, Statuses
<1>5. ScanFlag' \in {0, 1}
  BY <1>0
<1>6. link_status' = "LINK_UP" <=> link_status = "LINK_UP"
  BY <1>0
<1> QED
  BY <1>0, <1>3, <1>4, <1>5, <1>6, SameMode, SameBelief

LEMMA DirectCfgDoneKeeps == ASSUME Inv, HandleDirectCfgDone PROVE Inv'
<1>0. /\ Takes("DIRECT_CFG_DONE") /\ mac' = InfWiFiStart(InfWiFiStop(Taken), "STA", ssid)
      /\ SetsMode("STA", bDhcp) /\ link_status' = "DIRECT_CFG_DONE"
      /\ UNCHANGED <<ssid, DhcpTryTimes, sys, net, ScanFlag, smtconfigBegin, linked, moved,
                     faults>>
  BY DEF HandleDirectCfgDone
<1>1. PICK mid \in {0, 1} : Step("DIRECT_CFG_DONE", Believed, mid) /\ MacOK(Taken, mid)
  BY <1>0, TakesMeans DEF Events
<1>2. Believed = 0 /\ mid = Believed
  BY <1>1 DEF Step
<1>3. link_status # "LINK_UP" /\ ~(Alone /\ Holding)
  BY <1>2 DEF Believed, Inv, StatusInv, AloneInv
<1>4. MacOK(mac', Believed)
  <2>1. MacOK(InfWiFiStop(Taken), Believed)
    BY <1>1, <1>2, StopKeeps
  <2>2. "STA" \in Modes /\ ssid \in BOOLEAN
    BY DEF Modes, Inv, ParamType
  <2> QED
    BY <1>0, <2>1, <2>2, StartKeeps
<1>5. "DIRECT_CFG_DONE" \in Events \ {"UP", "DOWN"} /\ link_status' \in Statuses
      /\ (link_status' = "LINK_UP" <=> link_status = "LINK_UP")
  BY <1>0, <1>3 DEF Events, Statuses
<1>6. ScanFlag' \in {0, 1} /\ "STA" \in Modes /\ bDhcp \in BOOLEAN
  BY <1>0 DEF Inv, AppType, ParamType, Modes
<1>7. /\ Protocol' = "STA" /\ Protocol' \in Modes /\ bDhcp' \in BOOLEAN /\ changed' \in BOOLEAN
      /\ changed \/ Protocol' # Protocol \/ bDhcp' # bDhcp => changed'
  BY <1>0, <1>6, OtherMode
<1> QED
  BY <1>0, <1>3, <1>4, <1>5, <1>6, <1>7, SameBelief

LEMMA SysMgmtKeeps == ASSUME Inv, SysMgmtMain PROVE Inv'
BY UpStaticKeeps, UpDhcpKeeps, GivesUpKeeps, LateKeeps, GotKeeps, DownKeeps, JoinFailKeeps,
   DhcpTimeoutKeeps, ScanDoneKeeps, DirectCfgDoneKeeps DEF SysMgmtMain

-----------------------------------------------------------------------------
(* AtThread: a command leaves the mode alone while the servers run, and    *)
(* one that will set it later has stopped the link.                        *)
LEMMA AtFrame ==
  ASSUME Inv, UNCHANGED <<sys, net, link_status, linked, moved, faults, softap, losses>>,
         ParamType', MacOK(mac', Believed),
         changed \/ Protocol' # Protocol \/ bDhcp' # bDhcp => changed',
         ScanFlag' \in {0, 1}, smtconfigBegin' \in {0, 1},
         arg' \in [mode : Modes, good : BOOLEAN], commands' \in 0..MaxCommands,
         at' \in {"boot", "idle", "wscap", "wqsopt", "wsmtconf", "wscanap"},
         Protocol' = Protocol \/ ~(Alone /\ Holding),
         at' \in {"boot", "idle", "wscanap"} \/ mac'.state = "off"
  PROVE  Inv'
<1>1. AppType'
  BY DEF Inv, AppType
<1>2. Alone' => /\ Alone
                /\ Holding => Protocol' = "AP"
                /\ Setting' => Protocol' = "STA" \/ mac'.state = "off"
  BY DEF Inv, AloneInv, Alone, Setting
<1> QED
  BY <1>1, <1>2, OthersFrame

(* What the commands and the thread's returns from a delay share.          *)
LEMMA AtFacts ==
  ASSUME Inv
  PROVE  /\ Protocol \in Modes /\ ssid \in BOOLEAN /\ bDhcp \in BOOLEAN
         /\ DhcpTryTimes \in TryTimes
         /\ MacOK(mac, Believed) /\ MacOK(InfWiFiStop(mac), Believed)
         /\ InfWiFiStop(mac).state = "off"
         /\ ScanFlag \in {0, 1} /\ smtconfigBegin \in {0, 1}
         /\ arg \in [mode : Modes, good : BOOLEAN] /\ commands \in 0..MaxCommands
         /\ at \in {"boot", "idle", "wscap", "wqsopt", "wsmtconf", "wscanap"}
BY StopKeeps DEF Inv, ParamType, AppType

LEMMA CommandMeans ==
  ASSUME Inv, Command
  PROVE  /\ at = "idle" /\ SysWaits /\ commands' \in 0..MaxCommands
         /\ UNCHANGED <<sys, net, softap, losses>>
BY BoundsAssumption, AtFacts DEF Command

(* No server runs when a command sets the mode after its delay.            *)
LEMMA ResumesMeans ==
  ASSUME Inv, NEW c, Resumes(c)
  PROVE  /\ at = c /\ at' = "idle" /\ UNCHANGED <<sys, net, arg, softap, commands, losses>>
         /\ c \in {"wscap", "wqsopt", "wsmtconf"} => ~(Alone /\ Holding)
BY Waiting DEF Resumes, Setting

LEMMA AtResumesKeeps == ASSUME Inv, AtResumes PROVE Inv'
<1> USE AtFacts
<1>1. CASE Boot
  <2>1. /\ at' = "idle" /\ mac' = InfWiFiStart(mac, Protocol, ssid)
        /\ UNCHANGED <<param, sys, net, app, arg, softap, commands, losses>>
    BY <1>1 DEF Boot
  <2>2. MacOK(mac', Believed)
    BY <2>1, StartKeeps
  <2>3. ParamType'
    BY <2>1, SameMode
  <2> QED
    BY <2>1, <2>2, <2>3, SameMode, AtFrame DEF app
<1>2. CASE WSCAPConnects
  <2>1. /\ Resumes("wscap") /\ SetsMode(arg.mode, bDhcp) /\ ssid' = TRUE
        /\ mac' = InfWiFiStart(mac, arg.mode, TRUE)
        /\ UNCHANGED <<DhcpTryTimes, app>>
    BY <1>2 DEF WSCAPConnects
  <2>2. arg.mode \in Modes /\ ssid' \in BOOLEAN /\ TRUE \in BOOLEAN
    BY <2>1
  <2>3. MacOK(mac', Believed)
    BY <2>1, <2>2, StartKeeps
  <2>4. /\ changed' \in BOOLEAN /\ Protocol' \in Modes /\ bDhcp' \in BOOLEAN
        /\ changed \/ Protocol' # Protocol \/ bDhcp' # bDhcp => changed'
    BY <2>1, <2>2, OtherMode
  <2>5. ParamType'
    BY <2>1, <2>2, <2>4 DEF ParamType
  <2> QED
    BY <2>1, <2>3, <2>4, <2>5, ResumesMeans, AtFrame DEF app
<1>3. CASE WQSOPTSets
  <2>1. /\ Resumes("wqsopt") /\ SetsMode(IF arg.good THEN arg.mode ELSE Protocol, bDhcp)
        /\ UNCHANGED <<ssid, DhcpTryTimes, mac, app>>
    BY <1>3 DEF WQSOPTSets
  <2>2. (IF arg.good THEN arg.mode ELSE Protocol) \in Modes
    OBVIOUS
  <2>3. /\ changed' \in BOOLEAN /\ Protocol' \in Modes /\ bDhcp' \in BOOLEAN
        /\ changed \/ Protocol' # Protocol \/ bDhcp' # bDhcp => changed'
    BY <2>1, <2>2, OtherMode
  <2>4. ParamType' /\ MacOK(mac', Believed)
    BY <2>1, <2>3 DEF ParamType
  <2> QED
    BY <2>1, <2>3, <2>4, ResumesMeans, AtFrame DEF app
<1>4. CASE WSMTCONFBegins
  <2>1. /\ Resumes("wsmtconf") /\ SetsMode("STA", bDhcp) /\ mac' = InfDirectCfgStart(mac)
        /\ smtconfigBegin' = 1
        /\ UNCHANGED <<ssid, DhcpTryTimes, link_status, ScanFlag, linked, moved, faults>>
    BY <1>4 DEF WSMTCONFBegins
  <2>2. MacOK(mac', Believed)
    BY <2>1, DirectStartKeeps
  <2>3. "STA" \in Modes
    BY DEF Modes
  <2>4. /\ changed' \in BOOLEAN /\ Protocol' \in Modes /\ bDhcp' \in BOOLEAN
        /\ changed \/ Protocol' # Protocol \/ bDhcp' # bDhcp => changed'
    BY <2>1, <2>3, OtherMode
  <2>5. ParamType'
    BY <2>1, <2>4 DEF ParamType
  <2> QED
    BY <2>1, <2>2, <2>4, <2>5, ResumesMeans, AtFrame
<1>5. CASE WSCANAPEnds
  <2>1. /\ Resumes("wscanap") /\ mac' = (IF ssid THEN mac ELSE InfWiFiStop(mac))
        /\ UNCHANGED <<param, app>>
    BY <1>5 DEF WSCANAPEnds
  <2>2. MacOK(mac', Believed)
    BY <2>1
  <2>3. ParamType'
    BY <2>1, SameMode
  <2> QED
    BY <2>1, <2>2, <2>3, SameMode, ResumesMeans, AtFrame DEF app
<1> QED
  BY <1>1, <1>2, <1>3, <1>4, <1>5 DEF AtResumes

LEMMA CommandsKeep ==
  ASSUME Inv,
         \/ responseWSCAP \/ responseWQSOPT \/ responseNLOCIP \/ responseWSTOP
         \/ responseWSMTCONF \/ responseWSCANAP
  PROVE  Inv'
<1> USE AtFacts
<1>1. CASE responseWSCAP
  <2>1. /\ Command /\ mac' = InfWiFiStop(mac) /\ arg' = [arg EXCEPT !.mode = Protocol]
        /\ at' = "wscap" /\ UNCHANGED <<param, app>>
    BY <1>1 DEF responseWSCAP
  <2>2. ParamType' /\ arg' \in [mode : Modes, good : BOOLEAN]
    BY <2>1, SameMode
  <2> QED
    BY <2>1, <2>2, SameMode, CommandMeans, AtFrame DEF app
<1>2. CASE responseWQSOPT
  <2>1. PICK mode \in Modes :
          IF Connected
          THEN /\ mac' = InfWiFiStop(mac)
               /\ \E good \in BOOLEAN : arg' = [mode |-> mode, good |-> good]
               /\ at' = "wqsopt"
               /\ UNCHANGED <<Protocol, bDhcp, changed>>
          ELSE SetsMode(mode, bDhcp) /\ UNCHANGED <<mac, arg, at>>
    BY <1>2 DEF responseWQSOPT
  <2>2. Command /\ UNCHANGED <<ssid, DhcpTryTimes, app>>
    BY <1>2 DEF responseWQSOPT
  <2>3. CASE Connected
    <3>1. /\ mac' = InfWiFiStop(mac) /\ at' = "wqsopt" /\ UNCHANGED param
          /\ arg' \in [mode : Modes, good : BOOLEAN]
      BY <2>1, <2>2, <2>3 DEF param
    <3>2. ParamType'
      BY <3>1, SameMode
    <3> QED
      BY <2>2, <3>1, <3>2, SameMode, CommandMeans, AtFrame DEF app
  <2>4. CASE ~Connected
    <3>1. ~(Alone /\ Holding)
      BY <2>4, Waiting
    <3>2. SetsMode(mode, bDhcp) /\ UNCHANGED <<mac, arg, at>>
      BY <2>1, <2>4
    <3>3. /\ changed' \in BOOLEAN /\ Protocol' \in Modes /\ bDhcp' \in BOOLEAN
          /\ changed \/ Protocol' # Protocol \/ bDhcp' # bDhcp => changed'
      BY <3>2, OtherMode
    <3>4. ParamType'
      BY <2>2, <3>3 DEF ParamType
    <3> QED
      BY <2>2, <3>1, <3>2, <3>3, <3>4, CommandMeans, AtFrame DEF app
  <2> QED
    BY <2>3, <2>4
<1>3. CASE responseNLOCIP
  <2>1. PICK d \in BOOLEAN : SetsMode(Protocol, d)
    BY <1>3 DEF responseNLOCIP
  <2>2. /\ Command /\ DhcpTryTimes' \in TryTimes
        /\ UNCHANGED <<ssid, mac, app, at, arg>>
    BY <1>3 DEF responseNLOCIP
  <2>3. /\ changed' \in BOOLEAN /\ Protocol' = Protocol /\ bDhcp' \in BOOLEAN
        /\ changed \/ Protocol' # Protocol \/ bDhcp' # bDhcp => changed'
    BY <2>1, OtherMode
  <2>4. ParamType'
    BY <2>2, <2>3 DEF ParamType
  <2> QED
    BY <2>2, <2>3, <2>4, CommandMeans, AtFrame DEF app
<1>4. CASE responseWSTOP
  <2>1. Command /\ mac' = InfWiFiStop(mac) /\ UNCHANGED <<param, app, at, arg>>
    BY <1>4 DEF responseWSTOP
  <2>2. ParamType'
    BY <2>1, SameMode
  <2> QED
    BY <2>1, <2>2, SameMode, CommandMeans, AtFrame DEF app
<1>5. CASE responseWSMTCONF
  <2>1. /\ Command /\ mac' = InfWiFiStop(mac) /\ at' = "wsmtconf"
        /\ UNCHANGED <<param, app, arg>>
    BY <1>5 DEF responseWSMTCONF
  <2>2. ParamType'
    BY <2>1, SameMode
  <2> QED
    BY <2>1, <2>2, SameMode, CommandMeans, AtFrame DEF app
<1>6. CASE responseWSCANAP
  <2> DEFINE m == IF Connected THEN mac ELSE InfWiFiStart(mac, Protocol, FALSE)
  <2>1. /\ Command /\ ScanFlag' = 0 /\ ssid' = (Connected /\ ssid) /\ mac' = InfScanStart(m)
        /\ at' = "wscanap"
        /\ UNCHANGED <<Protocol, bDhcp, DhcpTryTimes, changed, link_status,
                       smtconfigBegin, linked, moved, faults, arg>>
    BY <1>6 DEF responseWSCANAP
  <2>2. MacOK(m, Believed)
    <3>1. FALSE \in BOOLEAN
      OBVIOUS
    <3>2. MacOK(InfWiFiStart(mac, Protocol, FALSE), Believed)
      BY <3>1, StartKeeps
    <3> QED
      BY <3>2
  <2> HIDE DEF m
  <2>3. MacOK(mac', Believed)
    BY <2>1, <2>2, ScanStartKeeps
  <2>4. ssid' \in BOOLEAN
    BY <2>1
  <2>5. ParamType' /\ (changed \/ Protocol' # Protocol \/ bDhcp' # bDhcp => changed')
    BY <2>1, <2>4 DEF Inv, ParamType
  <2> QED
    BY <2>1, <2>3, <2>5, CommandMeans, AtFrame
<1> QED
  BY <1>1, <1>2, <1>3, <1>4, <1>5, <1>6

-----------------------------------------------------------------------------
(* AT+WSACONF and the thread it creates.                                   *)
LEMMA SoftApFrame ==
  ASSUME Inv, UNCHANGED <<DhcpTryTimes, sys, net, app, at, arg, losses>>,
         commands' \in 0..MaxCommands, ssid' \in BOOLEAN,
         \/ UNCHANGED <<Protocol, bDhcp, changed>>
         \/ SetsMode("AP", bDhcp) \/ SetsMode("STA", bDhcp),
         MacOK(mac', Believed),
         softap' \in {"stopped", "opened", "serving", "configured", "done"}
  PROVE  Inv'
<1>1. /\ changed' \in BOOLEAN /\ Protocol' \in Modes /\ bDhcp' \in BOOLEAN
      /\ changed \/ Protocol' # Protocol \/ bDhcp' # bDhcp => changed'
  <2>1. /\ "AP" \in Modes /\ "STA" \in Modes /\ Protocol \in Modes
        /\ bDhcp \in BOOLEAN /\ changed \in BOOLEAN
    BY DEF Inv, ParamType, Modes
  <2>2. CASE SetsMode("AP", bDhcp) \/ SetsMode("STA", bDhcp)
    BY <2>1, <2>2, OtherMode
  <2>3. CASE UNCHANGED <<Protocol, bDhcp, changed>>
    BY <2>1, <2>3
  <2> QED
    BY <2>2, <2>3
<1>2. ParamType' /\ AppType'
  BY <1>1 DEF Inv, ParamType, AppType, app
<1>3. ~Alone'
  BY DEF Alone
<1> QED
  BY <1>1, <1>2, <1>3, OthersFrame DEF app

LEMMA SoftApKeeps == ASSUME Inv, responseWSACONF \/ SoftApConfThread PROVE Inv'
<1> USE AtFacts
<1>0. "AP" \in Modes /\ "STA" \in Modes /\ TRUE \in BOOLEAN
  BY DEF Modes
<1>1. CASE responseWSACONF
  <2>1. /\ commands < MaxCommands /\ commands' = commands + 1 /\ softap' = "stopped"
        /\ mac' = InfWiFiStop(mac) /\ UNCHANGED <<param, sys, net, app, at, arg, losses>>
    BY <1>1 DEF responseWSACONF
  <2>2. commands' \in 0..MaxCommands
    BY <2>1, BoundsAssumption
  <2> QED
    BY <2>1, <2>2, SoftApFrame DEF param
<1>2. CASE SoftApOpens
  <2>1. /\ SoftApStep("stopped") /\ SetsMode("AP", bDhcp) /\ ssid' = TRUE
        /\ mac' = InfWiFiStart(mac, "AP", TRUE) /\ softap' = "opened"
    BY <1>2 DEF SoftApOpens
  <2>2. MacOK(mac', Believed) /\ ssid' \in BOOLEAN
    BY <1>0, <2>1, StartKeeps
  <2> QED
    BY <1>0, <2>1, <2>2, SoftApFrame DEF SoftApStep
<1>3. CASE SoftApLooks
  BY <1>3, SoftApFrame DEF SoftApLooks, SoftApStep, param
<1>4. CASE SoftApLinkGone
  BY <1>4, SoftApFrame DEF SoftApLinkGone, SoftApStep, param
<1>5. CASE SoftApConfigured
  BY <1>5, SoftApFrame DEF SoftApConfigured, SoftApStep, param
<1>6. CASE SoftApJoins
  <2>1. /\ SoftApStep("configured") /\ SetsMode("STA", bDhcp) /\ ssid' = TRUE
        /\ mac' = InfWiFiStart(mac, "STA", TRUE) /\ softap' = "done"
    BY <1>6 DEF SoftApJoins
  <2>2. MacOK(mac', Believed) /\ ssid' \in BOOLEAN
    BY <1>0, <2>1, StartKeeps
  <2> QED
    BY <1>0, <2>1, <2>2, SoftApFrame DEF SoftApStep
<1> QED
  BY <1>1, <1>2, <1>3, <1>4, <1>5, <1>6 DEF SoftApConfThread

-----------------------------------------------------------------------------
LEMMA NextKeeps == Inv /\ [Next]_vars => Inv'
<1> SUFFICES ASSUME Inv, [Next]_vars PROVE Inv'
  OBVIOUS
<1>1. CASE UNCHANGED vars
  <2>1. UNCHANGED <<param, mac, sys, net, app, at, arg, softap, commands, losses>>
    BY <1>1 DEF vars
  <2>2. Believed' = Believed
    BY <2>1 DEF Believed, app
  <2>3. ParamType' /\ NetType' /\ AppType' /\ MacOK(mac', Believed')
    BY <2>1, <2>2 DEF Inv, ParamType, NetType, AppType, param, net, client, servers, app
  <2>4. StatusInv' /\ NetInv' /\ ClientInv'
    BY <2>1 DEF Inv, StatusInv, NetInv, ClientInv, param, net, client, servers, app
  <2>5. ServerInv'
    <3>1. ASSUME NEW s \in Servers PROVE Known(s)'
      BY <2>1 DEF Inv, ServerInv, Known, param, net, servers, app
    <3> QED
      BY <2>1, <3>1 DEF Inv, ServerInv, param, net, servers, app
  <2>6. AloneInv'
    BY <2>1 DEF Inv, AloneInv, Alone, Holding, Setting, param, net, servers, app
  <2> QED
    BY <2>3, <2>4, <2>5, <2>6 DEF Inv
<1>2. CASE Next
  BY <1>2, MacKeeps, DhcpKeeps, SysMgmtKeeps, AtResumesKeeps, CommandsKeep, SoftApKeeps
  DEF Next, AtThread
<1> QED
  BY <1>1, <1>2

(* The invariant holds throughout.                                         *)
LEMMA InvHolds == Spec => []Inv
BY InitInv, NextKeeps, PTL DEF Spec

(* Once SysMgmtMain has handled every event, link_status says LINK_UP      *)
(* exactly while there is a link whose L2LinkUp did not fail; the          *)
(* interface has an address exactly then, but for a DHCP client that lost  *)
(* its lease; and a server's control block is lost, or freed twice, only   *)
(* where the mode was changed under a link, at most one for each such      *)
(* link: for every interleaving of the library's events, the DHCP client,  *)
(* the wait for it, the AT commands and the SoftAP configuration thread.   *)
THEOREM LinkCorrect == Spec => []LinkSettles
BY InvHolds, InvImplies, PTL
=============================================================================
