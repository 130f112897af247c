----------------------------- MODULE LinkEvents -----------------------------
(***************************************************************************)
(* The wireless link as the application sees it: the system manager task   *)
(* (Sys/sys_mgmt.c) that turns events of the MAC library into network      *)
(* interface changes (LwIP/port/lwIP.c) and into link_status               *)
(* (Sys/app_main.c), and the AT commands and the SoftAP configuration      *)
(* thread of App/SerialNet/at_cmd.c that start and stop the link.          *)
(*                                                                         *)
(* Events wait in one queue.  SysMgmtMain handles one at a time, above     *)
(* AtThread and SoftApConfThread in priority: they move only while it      *)
(* waits, for an event or inside ifUpWhenDhcp.  That wait lets the         *)
(* commands change the very parameters the handler goes on to read.        *)
(* lwIP's DHCP client (LwIP/src/core/dhcp.c) runs below it too, in         *)
(* tcpip_thread; each of its callbacks is one step, and that the system    *)
(* manager's own calls into lwIP may break into one is left out.           *)
(* The MAC library is not in the repository; it is taken to post UP when   *)
(* a link begins, DOWN when that link ends, and one SCAN_DONE for a scan.  *)
(***************************************************************************)
EXTENDS Naturals, Sequences

CONSTANTS TryTimes,     \* values of IPCfg.DhcpTryTimes; 0 waits for ever
          TriesWrap,    \* dhcp->tries is counted modulo this (256: a u8_t)
          RequestTries, \* REQUESTs before the offer is given up (5)
          RebindTries,  \* REQUESTs before the lease is given up (8)
          MaxCommands,  \* bound: AT commands
          MaxLosses,    \* bound: links the network ends
          MaxFaults     \* bound: starts of a client or server without memory

\* IPCfg.DhcpTryTimes is an INT8U, as tries is a u8_t.
ASSUME TriesAssumption ==
  /\ TriesWrap \in Nat \ {0, 1, 2} /\ TryTimes \subseteq 0..(TriesWrap - 1)
  /\ RequestTries \in Nat /\ RebindTries \in Nat
ASSUME BoundsAssumption ==
  MaxCommands \in Nat /\ MaxLosses \in Nat /\ MaxFaults \in Nat

Modes == {"STA", "AP"}                  \* WiFiCfg.Protocol
Events == {"UP", "DOWN", "JOIN_FAIL", "DHCP_TIMEOUT", "SCAN_DONE", "DIRECT_CFG_DONE"}
Statuses == {"LINK_UP", "LINK_DOWN", "JOIN_FAIL", "DHCP_FAIL", "SCAN_DONE",
             "DIRECT_CFG_DONE"}
Servers == {"dhcps", "dnss"}            \* of a SoftAP; both are enabled

VARIABLES
  Protocol, ssid, bDhcp, DhcpTryTimes,  \* SysParam; ssid: one is set
  mac,          \* [state, mode, scanning, q]: the library and its events
  sys,          \* SysMgmtMain: "idle", "dhcp" in ifUpWhenDhcp, "late" at its end
  up, addr,     \* the interface: netif_is_up and where its address is from
  dhcp, tries,  \* lwIP's DHCP client: dhcp->state, dhcp->tries
  pcbs,         \* UDP control blocks each server has taken and not given back
  Socket,       \* DhcpServer.Socket, DnsServer.Socket: is it NULL, held, freed
  link_status, ScanFlag, smtconfigBegin,
  at,           \* AtThread: "idle" or the command it is inside of
  arg,          \* the mode AT+WQSOPT was given, and if it refuses the rest
  softap,       \* SoftApConfThread: "none", its waits, "done"
  \* History.  linked: what the last of UP and DOWN to be handled said, or
  \* "failed" when L2LinkUp did; changed: the mode is not the one that UP
  \* was handled in; moved: DOWNs handled in such a mode; twice: a freed
  \* control block was freed again.
  linked, changed, moved, twice,
  commands, losses, faults

param == <<Protocol, ssid, bDhcp, DhcpTryTimes, changed>>
client == <<dhcp, tries>>
servers == <<pcbs, Socket, twice>>
net == <<up, addr, client, servers>>
app == <<link_status, ScanFlag, smtconfigBegin, linked, moved, faults>>
vars == <<param, mac, sys, net, app, at, arg, softap, commands, losses>>

LinkReady == mac.state = "on"

Init ==
  /\ Protocol \in Modes /\ ssid = TRUE
  /\ bDhcp \in BOOLEAN /\ DhcpTryTimes \in TryTimes
  /\ mac = [state |-> "off", mode |-> "STA", scanning |-> FALSE, q |-> <<>>]
  /\ sys = "idle"
  /\ up = FALSE /\ addr = "none"
  /\ dhcp = "off" /\ tries = 0
  /\ pcbs = [s \in Servers |-> 0] /\ Socket = [s \in Servers |-> "null"]
  /\ link_status = "LINK_DOWN" /\ ScanFlag = 0 /\ smtconfigBegin = 0
  /\ at = "boot" /\ arg = [mode |-> "STA", good |-> TRUE]
  /\ softap = "none"
  /\ linked = "no" /\ changed = FALSE /\ moved = 0 /\ twice = FALSE
  /\ commands = 0 /\ losses = 0 /\ faults = 0

-----------------------------------------------------------------------------
(* Requests to the MAC library: InfWiFiStop, InfWiFiStart under the        *)
(* parameters p (mode) and s (an ssid is set), InfScanStart,               *)
(* InfDirectCfgStart.                                                      *)
Post(m, e) == [m EXCEPT !.q = Append(@, e)]

InfWiFiStop(m) ==
  [(IF m.state = "on" THEN Post(m, "DOWN") ELSE m) EXCEPT !.state = "off"]

InfWiFiStart(m, p, s) ==
  IF m.state # "off" THEN m
  ELSE IF p = "AP" THEN Post([m EXCEPT !.state = "on", !.mode = "AP"], "UP")
  ELSE [m EXCEPT !.state = IF s THEN "joining" ELSE "ready", !.mode = "STA"]

InfScanStart(m) == [m EXCEPT !.scanning = TRUE]
InfDirectCfgStart(m) == [InfWiFiStop(m) EXCEPT !.state = "direct"]

(* What the library reports by itself. *)
Joined ==
  /\ mac.state = "joining"
  /\ mac' = Post([mac EXCEPT !.state = "on"], "UP")
  /\ UNCHANGED <<param, sys, net, app, at, arg, softap, commands, losses>>

JoinFails ==
  /\ mac.state = "joining"
  /\ mac' = Post([mac EXCEPT !.state = "off"], "JOIN_FAIL")
  /\ UNCHANGED <<param, sys, net, app, at, arg, softap, commands, losses>>

LinkLost ==
  /\ losses < MaxLosses
  /\ LinkReady /\ mac.mode = "STA"
  /\ mac' = Post([mac EXCEPT !.state = "joining"], "DOWN")
  /\ losses' = losses + 1
  /\ UNCHANGED <<param, sys, net, app, at, arg, softap, commands>>

ScanEnds ==
  /\ mac.scanning
  /\ mac' = Post([mac EXCEPT !.scanning = FALSE], "SCAN_DONE")
  /\ UNCHANGED <<param, sys, net, app, at, arg, softap, commands, losses>>

DirectCfgEnds ==
  /\ mac.state = "direct"
  /\ mac' = Post([mac EXCEPT !.state = "ready"], "DIRECT_CFG_DONE")
  /\ ssid' = TRUE
  /\ UNCHANGED <<Protocol, bDhcp, DhcpTryTimes, changed, sys, net, app, at, arg,
                 softap, commands, losses>>

-----------------------------------------------------------------------------
(* The tasks below SysMgmtMain run when it waits. *)
SysWaits == sys # "idle" \/ mac.q = <<>>

(* Mutant: the tries are not counted. *)
MutGivesUp == ~LinkReady

(* ifUpWhenDhcp looks every 20 ticks, at the link and the tries before the *)
(* address.                                                                *)
GivesUp == ~LinkReady \/ (DhcpTryTimes # 0 /\ tries > DhcpTryTimes)

(* lwIP's DHCP client.  A message is sent in state s and counted; a change *)
(* of state begins a new count (dhcp_set_state).                           *)
Sends(s) ==
  /\ dhcp' = s
  /\ tries' = IF s = dhcp THEN (tries + 1) % TriesWrap ELSE 1

(* dhcp_bind; dhcp_handle_nak and dhcp_release, which discover again. *)
Bind == dhcp' = "bound" /\ tries' = 0 /\ up' = TRUE /\ addr' = "dhcp"
Discover == Sends("selecting") /\ up' = FALSE /\ addr' = "none"

Client ==
  /\ SysWaits
  /\ UNCHANGED <<param, mac, sys, servers, app, at, arg, softap, commands, losses>>

Hears == Client /\ LinkReady /\ mac.mode = "STA"

(* An OFFER; one without a server's name only stops the timer: "stalled".  *)
dhcp_handle_offer ==
  /\ Hears /\ dhcp \in {"selecting", "stalled"}
  /\ \/ Sends("requesting")
     \/ dhcp' = "stalled" /\ UNCHANGED tries
  /\ UNCHANGED <<up, addr>>

(* An ACK: the address is checked first, unless it was in use. *)
dhcp_handle_ack ==
  /\ Hears
  /\ \/ dhcp = "requesting" /\ Sends("checking") /\ UNCHANGED <<up, addr>>
     \/ dhcp \in {"renewing", "rebinding"} /\ Bind

dhcp_handle_nak ==
  /\ Hears /\ dhcp \in {"requesting", "renewing", "rebinding"}
  /\ Discover

(* Another host has the address. *)
dhcp_arp_reply ==
  /\ Hears /\ dhcp = "checking"
  /\ Sends("backing") /\ UNCHANGED <<up, addr>>

DhcpRecv == dhcp_handle_offer \/ dhcp_handle_ack \/ dhcp_handle_nak \/ dhcp_arp_reply

(* Two firings of a timer are half a second apart or more, and             *)
(* ifUpWhenDhcp looks every 20 ticks: it looks before a count goes on.     *)
Looked == ~(sys = "dhcp" /\ GivesUp)

(* dhcp_fine_tmr: no answer came. *)
dhcp_timeout ==
  /\ Client /\ Looked
  /\ \/ /\ \/ dhcp \in {"selecting", "backing"} /\ Sends("selecting")
           \/ dhcp = "requesting" /\ tries <= RequestTries /\ Sends("requesting")
           \/ dhcp = "checking" /\ tries <= 1 /\ Sends("checking")
           \/ dhcp = "renewing" /\ Sends("renewing")
           \/ dhcp = "rebinding" /\ tries <= RebindTries /\ Sends("rebinding")
        /\ UNCHANGED <<up, addr>>
     \/ dhcp = "checking" /\ tries > 1 /\ Bind
     \/ dhcp = "requesting" /\ tries > RequestTries /\ Discover
     \/ dhcp = "rebinding" /\ tries > RebindTries /\ Discover

(* dhcp_coarse_tmr: the lease is to be renewed (T1), or taken anew (T2). *)
dhcp_coarse_tmr ==
  /\ Client /\ dhcp \in {"requesting", "bound", "renewing"}
  /\ dhcp = "renewing" => Looked
  /\ Sends("renewing") \/ Sends("rebinding")
  /\ UNCHANGED <<up, addr>>

-----------------------------------------------------------------------------
(* DHCPS_Start and DNSS_Start: a Socket still held is forgotten; ok says   *)
(* whether udp_new has a control block for it.                             *)
StartServers(ok) ==
  /\ Socket' = [s \in Servers |-> IF ok[s] THEN "held" ELSE "null"]
  /\ pcbs' = [s \in Servers |-> pcbs[s] + IF ok[s] THEN 1 ELSE 0]
  /\ UNCHANGED twice

(* Mutant: the DHCP server is not stopped. *)
MutStopServers ==
  /\ pcbs' = [pcbs EXCEPT !["dnss"] = @ - IF Socket["dnss"] = "held" THEN 1 ELSE 0]
  /\ Socket' = [Socket EXCEPT !["dnss"] = IF @ = "null" THEN "null" ELSE "freed"]
  /\ twice' = (twice \/ Socket["dnss"] = "freed")

(* DHCPS_Stop and DNSS_Stop, which does not clear its Socket. *)
StopServers ==
  /\ pcbs' = [s \in Servers |-> pcbs[s] - IF Socket[s] = "held" THEN 1 ELSE 0]
  /\ Socket' = [s \in Servers |-> IF s = "dnss" /\ Socket[s] # "null"
                                  THEN "freed" ELSE "null"]
  /\ twice' = (twice \/ Socket["dnss"] = "freed")

(* The end of L2LinkUp, the interface having its address: the servers of a *)
(* SoftAP.  The second result replaces the first; when it is an error the  *)
(* application is not called back.  Else AppEvtCallBack(LINK_UP), with     *)
(* ResponseSmartconfig.                                                    *)
NotCalledBack ==
  /\ linked' = "failed"
  /\ UNCHANGED <<link_status, smtconfigBegin>>

CallBackUp ==
  /\ linked' = "up"
  /\ link_status' = "LINK_UP" /\ smtconfigBegin' = 0

L2LinkUpEnds ==
  /\ \/ /\ Protocol = "STA"
        /\ CallBackUp
        /\ UNCHANGED <<servers, faults>>
     \/ /\ Protocol = "AP"
        /\ \E ok \in [Servers -> BOOLEAN] :
             /\ StartServers(ok)
             /\ faults' = IF \A s \in Servers : ok[s] THEN faults ELSE faults + 1
             /\ IF ok["dnss"] THEN CallBackUp ELSE NotCalledBack
        /\ faults' <= MaxFaults
  /\ UNCHANGED <<ScanFlag, moved>>

(* The mode L2LinkUp and L2LinkDown each read. *)
SetsMode(p, d) ==
  /\ Protocol' = p /\ bDhcp' = d
  /\ changed' = (changed \/ p # Protocol \/ d # bDhcp)

(* SysMgmtMain takes the next event. *)
Takes(e) ==
  /\ sys = "idle"
  /\ mac.q # <<>> /\ Head(mac.q) = e
  /\ UNCHANGED <<at, arg, softap, commands, losses>>

Taken == [mac EXCEPT !.q = Tail(@)]

KeepsMode == UNCHANGED <<Protocol, ssid, bDhcp, DhcpTryTimes>>

HandleUpStatic ==
  /\ Takes("UP")
  /\ ~(Protocol = "STA" /\ bDhcp)
  /\ mac' = Taken
  /\ up' = TRUE /\ addr' = "static"
  /\ L2LinkUpEnds
  /\ changed' = FALSE
  /\ KeepsMode /\ UNCHANGED <<sys, client>>

(* ifUpWhenDhcp: dhcp_start begins with a new client.  Without memory      *)
(* there may be no client at all, whose tries are read all the same.       *)
HandleUpDhcp ==
  /\ Takes("UP")
  /\ Protocol = "STA" /\ bDhcp
  /\ mac' = Taken
  /\ \/ dhcp' = "selecting" /\ tries' = 1 /\ UNCHANGED faults
     \/ /\ dhcp' = "off" /\ tries' \in 0..(TriesWrap - 1)
        /\ faults' = faults + 1 /\ faults' <= MaxFaults
  /\ sys' = "dhcp"
  /\ linked' = "up" /\ changed' = FALSE
  /\ KeepsMode
  /\ UNCHANGED <<up, addr, servers, link_status, ScanFlag, smtconfigBegin, moved>>

dhcp_stop == dhcp' = "off" /\ tries' = 0

DhcpGivesUp ==
  /\ sys = "dhcp" /\ GivesUp
  /\ dhcp_stop
  /\ mac' = Post(mac, "DHCP_TIMEOUT")
  /\ sys' = "late"
  /\ UNCHANGED <<param, up, addr, servers, app, at, arg, softap, commands, losses>>

(* One tick later: the static address, and the end of L2LinkUp. *)
DhcpLate ==
  /\ sys = "late"
  /\ up' = TRUE /\ addr' = "static"
  /\ L2LinkUpEnds
  /\ sys' = "idle"
  /\ UNCHANGED <<param, mac, client, at, arg, softap, commands, losses>>

DhcpGot ==
  /\ sys = "dhcp" /\ ~GivesUp /\ addr # "none"
  /\ up' = TRUE
  /\ L2LinkUpEnds
  /\ sys' = "idle"
  /\ UNCHANGED <<param, mac, addr, client, at, arg, softap, commands, losses>>

(* L2LinkDown and AppEvtCallBack(LINK_DOWN). *)
HandleDown ==
  /\ Takes("DOWN")
  /\ mac' = Taken
  /\ up' = FALSE /\ addr' = "none"
  /\ IF Protocol = "STA" /\ bDhcp THEN dhcp_stop ELSE UNCHANGED client
  /\ IF Protocol = "AP" THEN StopServers ELSE UNCHANGED servers
  /\ link_status' = "LINK_DOWN"
  /\ linked' = "no"
  /\ moved' = IF changed THEN moved + 1 ELSE moved
  /\ UNCHANGED <<param, sys, ScanFlag, smtconfigBegin, faults>>

HandleJoinFail ==
  /\ Takes("JOIN_FAIL")
  /\ mac' = Taken
  /\ link_status' = "JOIN_FAIL"
  /\ UNCHANGED <<param, sys, net, ScanFlag, smtconfigBegin, linked, moved, faults>>

(* Mutant: the flag is set only with an ssid. *)
MutHandleScanDone ==
  /\ Takes("SCAN_DONE")
  /\ mac' = Taken
  /\ link_status' = IF link_status = "LINK_UP" THEN "LINK_UP"
                    ELSE IF ssid THEN "SCAN_DONE" ELSE "LINK_DOWN"
  /\ ScanFlag' = IF ssid THEN 1 ELSE ScanFlag
  /\ UNCHANGED <<param, sys, net, smtconfigBegin, linked, moved, faults>>

HandleDhcpTimeout ==
  /\ Takes("DHCP_TIMEOUT")
  /\ mac' = Taken
  /\ link_status' = IF link_status = "LINK_UP" THEN "LINK_UP" ELSE "DHCP_FAIL"
  /\ UNCHANGED <<param, sys, net, ScanFlag, smtconfigBegin, linked, moved, faults>>

HandleScanDone ==
  /\ Takes("SCAN_DONE")
  /\ mac' = Taken
  /\ link_status' = IF link_status = "LINK_UP" THEN "LINK_UP"
                    ELSE IF ssid THEN "SCAN_DONE" ELSE "LINK_DOWN"
  /\ ScanFlag' = 1
  /\ UNCHANGED <<param, sys, net, smtconfigBegin, linked, moved, faults>>

HandleDirectCfgDone ==
  /\ Takes("DIRECT_CFG_DONE")
  /\ mac' = InfWiFiStart(InfWiFiStop(Taken), "STA", ssid)
  /\ SetsMode("STA", bDhcp)
  /\ link_status' = "DIRECT_CFG_DONE"
  /\ UNCHANGED <<ssid, DhcpTryTimes, sys, net, ScanFlag, smtconfigBegin, linked,
                 moved, faults>>

-----------------------------------------------------------------------------
(* The code's test for a link, in commands and in uart_data_recv. *)
Connected == link_status \in {"LINK_UP", "SCAN_DONE"}

(* Init_SeriaNet, or the end of init_default_data. *)
Boot ==
  /\ at = "boot"
  /\ at' = "idle"
  /\ mac' = InfWiFiStart(mac, Protocol, ssid)
  /\ UNCHANGED <<param, sys, net, app, arg, softap, commands, losses>>

Command ==
  /\ at = "idle" /\ SysWaits
  /\ commands < MaxCommands
  /\ commands' = commands + 1
  /\ UNCHANGED <<sys, net, softap, losses>>

(* OSTimeDly(10) of the command c is over. *)
Resumes(c) ==
  /\ at = c /\ SysWaits
  /\ at' = "idle"
  /\ UNCHANGED <<sys, net, arg, softap, commands, losses>>

responseWSCAP ==
  /\ Command
  /\ mac' = InfWiFiStop(mac)
  /\ arg' = [arg EXCEPT !.mode = Protocol]
  /\ at' = "wscap"
  /\ UNCHANGED <<param, app>>

WSCAPConnects ==
  /\ Resumes("wscap")
  /\ SetsMode(arg.mode, bDhcp) /\ ssid' = TRUE
  /\ mac' = InfWiFiStart(mac, arg.mode, TRUE)
  /\ UNCHANGED <<DhcpTryTimes, app>>

responseWQSOPT ==
  /\ Command
  /\ \E mode \in Modes :
       IF Connected
       THEN /\ mac' = InfWiFiStop(mac)
            /\ \E good \in BOOLEAN : arg' = [mode |-> mode, good |-> good]
            /\ at' = "wqsopt"
            /\ UNCHANGED <<Protocol, bDhcp, changed>>
       ELSE SetsMode(mode, bDhcp) /\ UNCHANGED <<mac, arg, at>>
  /\ UNCHANGED <<ssid, DhcpTryTimes, app>>

(* The remaining checks come after the stop. *)
WQSOPTSets ==
  /\ Resumes("wqsopt")
  /\ SetsMode(IF arg.good THEN arg.mode ELSE Protocol, bDhcp)
  /\ UNCHANGED <<ssid, DhcpTryTimes, mac, app>>

responseNLOCIP ==
  /\ Command
  /\ ~Connected /\ Protocol = "STA"
  /\ \E d \in BOOLEAN : SetsMode(Protocol, d)
  /\ DhcpTryTimes' \in TryTimes
  /\ UNCHANGED <<ssid, mac, app, at, arg>>

responseWSTOP ==
  /\ Command
  /\ Connected
  /\ mac' = InfWiFiStop(mac)
  /\ UNCHANGED <<param, app, at, arg>>

responseWSMTCONF ==
  /\ Command
  /\ smtconfigBegin = 0
  /\ mac' = InfWiFiStop(mac)
  /\ at' = "wsmtconf"
  /\ UNCHANGED <<param, app, arg>>

WSMTCONFBegins ==
  /\ Resumes("wsmtconf")
  /\ SetsMode("STA", bDhcp)
  /\ mac' = InfDirectCfgStart(mac)
  /\ smtconfigBegin' = 1
  /\ UNCHANGED <<ssid, DhcpTryTimes, link_status, ScanFlag, linked, moved, faults>>

responseWSCANAP ==
  /\ Command
  /\ ScanFlag' = 0
  /\ ssid' = (Connected /\ ssid)
  /\ mac' = InfScanStart(IF Connected THEN mac
                         ELSE InfWiFiStart(mac, Protocol, FALSE))
  /\ at' = "wscanap"
  /\ UNCHANGED <<Protocol, bDhcp, DhcpTryTimes, changed, link_status,
                 smtconfigBegin, linked, moved, faults, arg>>

WSCANAPEnds ==
  /\ Resumes("wscanap")
  /\ ScanFlag = 1
  /\ mac' = IF ssid THEN mac ELSE InfWiFiStop(mac)
  /\ UNCHANGED <<param, app>>

(* AT+WSACONF creates SoftApConfThread, which begins with a stop. *)
responseWSACONF ==
  /\ at = "idle" /\ SysWaits
  /\ commands < MaxCommands
  /\ commands' = commands + 1
  /\ softap = "none"
  /\ softap' = "stopped"
  /\ mac' = InfWiFiStop(mac)
  /\ UNCHANGED <<param, sys, net, app, at, arg, losses>>

SoftApStep(from) ==
  /\ softap = from /\ SysWaits
  /\ UNCHANGED <<DhcpTryTimes, sys, net, app, at, arg, commands, losses>>

SoftApOpens ==
  /\ SoftApStep("stopped")
  /\ SetsMode("AP", bDhcp) /\ ssid' = TRUE
  /\ mac' = InfWiFiStart(mac, "AP", TRUE)
  /\ softap' = "opened"

(* 20 ticks later, and before every recvfrom: the link must be up. *)
SoftApLooks ==
  /\ SoftApStep("opened")
  /\ softap' = IF link_status = "LINK_UP" THEN "serving" ELSE "done"
  /\ UNCHANGED <<param, mac>>

SoftApLinkGone ==
  /\ SoftApStep("serving")
  /\ link_status # "LINK_UP"
  /\ softap' = "done"
  /\ UNCHANGED <<param, mac>>

SoftApConfigured ==
  /\ SoftApStep("serving")
  /\ mac' = InfWiFiStop(mac)
  /\ softap' = "configured"
  /\ UNCHANGED param

SoftApJoins ==
  /\ SoftApStep("configured")
  /\ SetsMode("STA", bDhcp) /\ ssid' = TRUE
  /\ mac' = InfWiFiStart(mac, "STA", TRUE)
  /\ softap' = "done"

-----------------------------------------------------------------------------
Mac == Joined \/ JoinFails \/ LinkLost \/ ScanEnds \/ DirectCfgEnds

SysMgmtMain ==
  \/ HandleUpStatic \/ HandleUpDhcp \/ DhcpGivesUp \/ DhcpLate \/ DhcpGot
  \/ HandleDown \/ HandleJoinFail \/ HandleDhcpTimeout \/ HandleScanDone
  \/ HandleDirectCfgDone

AtResumes ==
  Boot \/ WSCAPConnects \/ WQSOPTSets \/ WSMTCONFBegins \/ WSCANAPEnds

AtThread ==
  \/ AtResumes
  \/ responseWSCAP \/ responseWQSOPT \/ responseNLOCIP \/ responseWSTOP
  \/ responseWSMTCONF \/ responseWSCANAP \/ responseWSACONF

SoftApConfThread ==
  SoftApOpens \/ SoftApLooks \/ SoftApLinkGone \/ SoftApConfigured \/ SoftApJoins

Next ==
  \/ Mac \/ DhcpRecv \/ dhcp_timeout \/ dhcp_coarse_tmr
  \/ SysMgmtMain \/ AtThread \/ SoftApConfThread

Spec == Init /\ [][Next]_vars

(* The tasks run when they are ready, lwIP's timer fires, and a scan ends. *)
(* Nothing says that a join succeeds, that a DHCP server answers, or that  *)
(* a user gives a command.                                                 *)
FairSpec ==
  /\ Spec
  /\ WF_vars(SysMgmtMain) /\ WF_vars(AtResumes)
  /\ WF_vars(dhcp_timeout) /\ WF_vars(ScanEnds)

-----------------------------------------------------------------------------
(* The states of every variable. *)
TypeOK ==
  /\ Protocol \in Modes /\ {ssid, bDhcp, changed} \subseteq BOOLEAN
  /\ DhcpTryTimes \in TryTimes
  /\ mac \in [state : {"off", "joining", "ready", "on", "direct"}, mode : Modes,
              scanning : BOOLEAN, q : Seq(Events)]
  /\ sys \in {"idle", "dhcp", "late"}
  /\ up \in BOOLEAN /\ addr \in {"none", "static", "dhcp"}
  /\ dhcp \in {"off", "selecting", "stalled", "requesting", "checking", "backing",
               "bound", "renewing", "rebinding"}
  /\ tries \in 0..(TriesWrap - 1)
  /\ pcbs \in [Servers -> Nat] /\ Socket \in [Servers -> {"null", "held", "freed"}]
  /\ link_status \in Statuses /\ {ScanFlag, smtconfigBegin} \subseteq {0, 1}
  /\ at \in {"boot", "idle", "wscap", "wqsopt", "wsmtconf", "wscanap"}
  /\ arg \in [mode : Modes, good : BOOLEAN]
  /\ softap \in {"none", "stopped", "opened", "serving", "configured", "done"}
  /\ linked \in {"no", "up", "failed"} /\ moved \in Nat /\ twice \in BOOLEAN
  /\ commands \in 0..MaxCommands /\ losses \in 0..MaxLosses
  /\ faults \in 0..MaxFaults

Settled == sys = "idle" /\ mac.q = <<>>

(* When the system manager has handled every event, link_status is LINK_UP *)
(* exactly while there is a link whose DNS server, if it is to have one,   *)
(* could be started: whatever order events and the late end of a DHCP wait *)
(* came in, none leaves an old answer behind (DefaultProc, L2LinkUp,       *)
(* AppEvtCallBack).                                                        *)
StatusSettles ==
  Settled => /\ link_status = "LINK_UP" <=> (LinkReady /\ linked # "failed")
             /\ linked = "failed" => Socket["dnss"] = "null"

(* ... and the interface is up with an address exactly then, though the    *)
(* end of a DHCP wait puts a static address on an interface whose link is  *)
(* already gone (ifUpWhenDhcp, L2LinkDown).  Two things break it: a client *)
(* that lost its lease takes the address away under a link that is still   *)
(* reported, until it has another; and a client that a change of mode left *)
(* running after the link may put one on.                                  *)
AddressSettles ==
  Settled =>
    /\ up <=> addr # "none"
    /\ LinkReady /\ addr = "none" => dhcp \notin {"off", "bound"}
    /\ ~LinkReady => (addr = "none" /\ dhcp = "off") \/ moved > 0
    /\ ~LinkReady /\ addr # "none" => dhcp # "off"

(* Each server of a SoftAP holds one control block while the link is up    *)
(* and gives it back once, although L2LinkUp and L2LinkDown each read the  *)
(* mode afresh: what is lost is at most one for every link under which the *)
(* mode was changed.  AT commands alone do not change it under a SoftAP's  *)
(* servers, unless L2LinkUp failed.                                        *)
ServersStopped ==
  /\ \A s \in Servers :
       /\ pcbs[s] <= moved + 1
       /\ Settled /\ ~LinkReady => pcbs[s] <= moved
       /\ softap = "none" /\ faults = 0 =>
            /\ pcbs[s] <= 1
            /\ Settled /\ ~LinkReady => pcbs[s] = 0
  /\ twice => moved > 0

(* What the device believes of its link agrees with the link: status,      *)
(* interface and servers, once every event was handled (SysMgmtMain,       *)
(* L2LinkUp, L2LinkDown, AppEvtCallBack).                                  *)
LinkSettles == TypeOK /\ StatusSettles /\ AddressSettles /\ ServersStopped

(* A DHCP wait that has no end by itself: no limit is set, or one that     *)
(* tries cannot pass; or the client sends nothing, having had no memory or *)
(* an OFFER without a server's name (ifUpWhenDhcp, dhcp_handle_offer).     *)
Endless ==
  /\ sys = "dhcp"
  /\ DhcpTryTimes \in {0, TriesWrap - 1} \/ dhcp \in {"off", "stalled"}

(* A server whose answers never come to an address begins the count of the *)
(* tries anew with each of them (dhcp_set_state).                          *)
AnswersForEver == []<><<sys = "dhcp" /\ DhcpRecv>>_vars

(* AT+WSCANAP comes to its end: SCAN_DONE reaches ScanFlag, unless the     *)
(* system manager is held inside ifUpWhenDhcp.                             *)
ScanAnswered ==
  \/ (at = "wscanap") ~> (at = "idle" \/ Endless)
  \/ AnswersForEver

(* A link that stays is reported, unless L2LinkUp fails or is held inside  *)
(* ifUpWhenDhcp.                                                           *)
UpReported ==
  \/ LinkReady ~> (link_status = "LINK_UP" \/ ~LinkReady \/ linked = "failed"
                    \/ Endless)
  \/ AnswersForEver
=============================================================================
