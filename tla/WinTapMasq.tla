------------------------------ MODULE WinTapMasq ------------------------------
(***************************************************************************)
(* The Windows driver seen by the program that opened its device and by    *)
(* the network stack: how ioctls configure it (TapDeviceHook), what it     *)
(* answers in the place of other hosts (ProcessARP, ProcessDHCP,           *)
(* HandleIPv6NeighborDiscovery) and which packets reach the program.       *)
(*                                                                         *)
(* Abstractions.  A call is a step: how calls interleave, and the life of  *)
(* the adapter, are WinTapDriver's.  An IP address has AddrBits bits, a    *)
(* netmask is its number of ones, and a MAC address what GenerateRelatedMAC*)
(* added to the adapter's.  A packet is what the driver looks at in it; a  *)
(* frame for the program is its number.  One program of two at a time has  *)
(* the device, and one read of it waits.  Lease time, netmask, checksums   *)
(* and statistics are left out.                                            *)
(***************************************************************************)
EXTENDS Integers, Sequences

CONSTANTS
  Packets,     \* what the network stack may send
  Tunnels,     \* arguments of CONFIG_TUN: [localIP, network, netmask]
  Servers,     \* arguments of CONFIG_DHCP_MASQ another program gives: [addr, server]
  OptionSizes, \* lengths given to CONFIG_DHCP_SET_OPT
  MediaStatus, \* what the registry may say of MediaStatus
  AddrBits,    \* 32
  BAD_DHCPREQUEST_NAK_THRESHOLD,  \* 3
  PacketCap,   \* PACKET_QUEUE_SIZE
  InjectCap,   \* INJECT_QUEUE_SIZE
  MaxFrames,   \* bound on the frames for the program
  MaxBad       \* bound on the DHCPREQUESTs that do not name the address

Addrs == 0 .. 2 ^ AddrBits - 1

\* That a power of two is a positive number is arithmetic the provers lack.
ASSUME MasqAssumption ==
  /\ AddrBits \in Nat \ {0} /\ MaxFrames \in Nat /\ MaxBad \in Nat
  /\ \A n \in 0 .. AddrBits : 2 ^ n \in Nat \ {0}
  /\ PacketCap \in Nat \ {0} /\ InjectCap \in Nat \ {0}
  /\ MediaStatus \subseteq BOOLEAN
  /\ OptionSizes \subseteq Nat /\ BAD_DHCPREQUEST_NAK_THRESHOLD \in Nat
  /\ \A p \in Packets : p.kind = "arp" => p.target \in Addrs
  /\ Tunnels \subseteq [localIP : Addrs, network : Addrs, netmask : 0 .. AddrBits]
  /\ Servers \subseteq [addr : Addrs, server : Addrs]

VARIABLES
  opener,    \* who opened the device: m_TapOpens is 1 unless it is "none"
  always,    \* m_MediaStateAlwaysConnected
  media,     \* m_MediaState, a byte
  tun,       \* m_tun and the fields of point-to-point mode
  dhcp,      \* the m_dhcp_ fields
  packets,   \* m_PacketQueue
  injects,   \* m_InjectQueue
  irp,       \* the read that was issued last, and its OVERLAPPED
  count,     \* the number of frames that were for the program
  heard,     \* what the last step indicated to the network stack
  log        \* since the device was opened: addresses configured, whether a
             \* DHCPDISCOVER came, and DHCPACKs to requests that named no address

tapVars == <<opener, always, media, tun, dhcp, packets, injects, irp, count, heard, log>>

Masked(addr, netmask) == addr - (addr % (2 ^ (AddrBits - netmask)))

AdapterMAC == 0
BroadcastMAC == -1
ZeroMAC == -2
GenerateRelatedMAC(delta) == AdapterMAC + delta
MACs == {AdapterMAC, BroadcastMAC, ZeroMAC, 1, 2}

DHCPDISCOVER == 1
DHCPOFFER == 2
DHCPREQUEST == 3
DHCPACK == 5
DHCPNAK == 6
DHCP_PAD == 0
DHCP_MSG_TYPE == 53
DHCP_END == 255
DHCP_OPTIONS_BUFFER_SIZE == 256
DHCP_USER_SUPPLIED_OPTIONS_BUFFER_SIZE == 256

ArpReply(ip, mac) == [kind |-> "arp", ip |-> ip, mac |-> mac]
NeighbourReply == [kind |-> "neighbour", mac |-> tun.user]
Silence == [kind |-> "none"]

Tun == [tun : BOOLEAN, localIP : Addrs, network : Addrs, netmask : 0 .. AddrBits,
        user : MACs]
Dhcp == [enabled : BOOLEAN, arp : BOOLEAN, addr : Addrs, server : Addrs, mac : MACs,
         options : 0 .. DHCP_USER_SUPPLIED_OPTIONS_BUFFER_SIZE,
         discovered : BOOLEAN, bad : 0 .. MaxBad]
Reply == [kind : {"arp"}, ip : Addrs, mac : MACs]
         \cup [kind : {"neighbour"}, mac : MACs]
         \cup [kind : {"dhcp"}, type : {DHCPOFFER, DHCPACK, DHCPNAK}, mac : MACs,
               dest : MACs, yiaddr : Addrs, server : Addrs]
Read == [state : {"none", "pending", "orphan", "done", "cancelled"}, n : Nat]

TapTypeOK ==
  /\ opener \in {"none", "lib", "other"} /\ always \in BOOLEAN /\ media \in 0 .. 255
  /\ tun \in Tun /\ dhcp \in Dhcp
  /\ packets \in Seq(1 .. MaxFrames) /\ Len(packets) <= PacketCap
  /\ injects \in Seq(Reply) /\ Len(injects) <= InjectCap
  /\ irp \in Read /\ count \in 0 .. MaxFrames
  /\ heard \in [kind : {"none", "reply", "frame"}]
                \cup [kind : {"tunnelled"}, mac : MACs, version : {4, 6}]
  /\ log \in [addrs : SUBSET Addrs, discovers : BOOLEAN, acks : Nat]

Blank == [addrs |-> {}, discovers |-> FALSE, acks |-> 0]
NoTun == [tun |-> FALSE, localIP |-> 0, network |-> 0, netmask |-> 0, user |-> ZeroMAC]
NoDhcp == [enabled |-> FALSE, arp |-> FALSE, addr |-> 0, server |-> 0, mac |-> ZeroMAC,
           options |-> 0, discovered |-> FALSE, bad |-> 0]
NoRead == [state |-> "none", n |-> 0]
Waiting == irp.state \in {"pending", "orphan"}

TapInit ==
  /\ opener = "none" /\ always \in MediaStatus /\ media = IF always THEN 1 ELSE 0
  /\ tun = NoTun /\ dhcp = NoDhcp
  /\ packets = <<>> /\ injects = <<>> /\ irp = NoRead
  /\ count = 0 /\ heard = Silence /\ log = Blank

-----------------------------------------------------------------------------
(* Opening, closing and the ioctls.  The I/O manager delivers a close when *)
(* the handle is closed and no read of it waits.                           *)

ResetTapAdapterState == tun' = NoTun /\ dhcp' = NoDhcp /\ log' = Blank

MediaAfter(state) == IF always THEN media ELSE state % 256

Create(who) ==
  /\ opener = "none" /\ opener' = who
  /\ ResetTapAdapterState /\ heard' = Silence
  /\ UNCHANGED <<always, media, packets, injects, count>>

\* Slip: the packets stay queued.
Slip_Close ==
  /\ opener' = "none" /\ ResetTapAdapterState
  /\ injects' = <<>> /\ media' = MediaAfter(0)
  /\ heard' = Silence /\ UNCHANGED <<always, count, packets>>

Close ==
  /\ opener' = "none" /\ ResetTapAdapterState
  /\ packets' = <<>> /\ injects' = <<>> /\ media' = MediaAfter(0)
  /\ heard' = Silence /\ UNCHANGED <<always, count>>

\* What an ioctl leaves alone.
Configures ==
  heard' = Silence /\ UNCHANGED <<opener, always, packets, injects, irp, count>>

SetMediaStatus(parm) ==
  media' = MediaAfter(parm) /\ Configures /\ UNCHANGED <<tun, dhcp, log>>

\* The far end answers for a DHCP server inside its network.
CheckIfDhcpAndTunMode(t, d) ==
  IF t.tun /\ d.enabled /\ Masked(d.server, t.netmask) = t.network
  THEN [d EXCEPT !.mac = t.user, !.arp = FALSE]
  ELSE d

Tunnelled(t) ==
  /\ tun' = [tun |-> TRUE, localIP |-> t.localIP, network |-> t.network,
             netmask |-> t.netmask, user |-> GenerateRelatedMAC(1)]
  /\ dhcp' = CheckIfDhcpAndTunMode(tun', dhcp)

ConfigTun(t) ==
  /\ \/ Masked(t.network, t.netmask) = t.network /\ Tunnelled(t)
     \/ /\ Masked(t.network, t.netmask) # t.network
        /\ tun' = [tun EXCEPT !.tun = FALSE, !.localIP = t.localIP,
                              !.network = t.network, !.netmask = t.netmask]
        /\ UNCHANGED dhcp
  /\ Configures /\ UNCHANGED <<media, log>>

ConfigPointToPoint(t) ==
  /\ Tunnelled([t EXCEPT !.netmask = AddrBits])
  /\ Configures /\ UNCHANGED <<media, log>>

\* discovered and bad are kept.
ConfigDhcpMasq(addr, server) ==
  /\ dhcp' = CheckIfDhcpAndTunMode(tun,
                [dhcp EXCEPT !.enabled = TRUE, !.arp = TRUE, !.options = 0,
                             !.addr = addr, !.server = server,
                             !.mac = GenerateRelatedMAC(2)])
  /\ log' = [log EXCEPT !.addrs = @ \cup {addr}]
  /\ Configures /\ UNCHANGED <<media, tun>>

\* Anything else is STATUS_INVALID_PARAMETER, the DHCPv6 ioctls included.
ConfigDhcpSetOpt(size) ==
  /\ size <= DHCP_USER_SUPPLIED_OPTIONS_BUFFER_SIZE /\ dhcp.enabled
  /\ dhcp' = [dhcp EXCEPT !.options = size]
  /\ Configures /\ UNCHANGED <<media, tun, log>>

-----------------------------------------------------------------------------
(* Replies.                                                                *)

\* Slip: a full queue takes one more.
Slip_InjectPacketDeferred(reply) ==
  injects' \in {injects} \cup
               (IF Len(injects) <= InjectCap THEN {Append(injects, reply)} ELSE {})

\* Dropped when there is no memory for it or the queue is full.
InjectPacketDeferred(reply) ==
  injects' \in {injects} \cup
               (IF Len(injects) < InjectCap THEN {Append(injects, reply)} ELSE {})

InjectPacketDpc ==
  /\ injects # <<>>
  /\ heard' = [kind |-> "reply"] /\ injects' = Tail(injects)
  /\ UNCHANGED <<opener, always, media, tun, dhcp, packets, irp, count, log>>

\* An ARP request of the adapter's for another address than ip of the network.
Asks(p, ip, network, netmask) ==
  /\ p.kind = "arp" /\ p.request /\ p.source = ip
  /\ Masked(p.target, netmask) = network /\ p.target # ip

GetDHCPMessageType(options) ==
  LET scan[i \in Nat] ==
        LET room == Len(options) - i IN
        IF i > Len(options) THEN -1
        ELSE CASE options[i] = DHCP_END -> -1
               [] options[i] = DHCP_PAD -> scan[i + 1]
               [] options[i] = DHCP_MSG_TYPE ->
                    IF room >= 2 /\ options[i + 1] = 1 THEN options[i + 2] ELSE -1
               [] OTHER -> IF room >= 1 THEN scan[i + options[i + 1] + 2] ELSE -1
  IN scan[1]

\* fromUs: our MAC address, the DHCP ports and our hardware address inside.
DHCPMessageOurs(p) == p.fromUs /\ p.dest \in {BroadcastMAC, dhcp.mac}

\* Message type, server, lease time, netmask, the program's own and the end.
OptionsSize(type) ==
  IF type = DHCPNAK THEN 3 + 6 + 1 ELSE 3 + 6 + 6 + 6 + dhcp.options + 1

BuildDHCPPre(p, type) ==
  [kind |-> "dhcp", type |-> type, mac |-> dhcp.mac, server |-> dhcp.server,
   dest |-> IF type = DHCPNAK \/ p.dest = BroadcastMAC THEN BroadcastMAC ELSE AdapterMAC,
   yiaddr |-> IF type = DHCPNAK THEN 0 ELSE dhcp.addr]

SendDHCPMsg(p, type) ==
  IF OptionsSize(type) <= DHCP_OPTIONS_BUFFER_SIZE
  THEN InjectPacketDeferred(BuildDHCPPre(p, type))
  ELSE UNCHANGED injects

\* A bad request does not name the address of the adapter; ciaddr is 0 in it
\* unless the client has another address.
Bad(p) == p.ciaddr # dhcp.addr

\* Slip: no DHCPDISCOVER is asked for.
Slip_Answer(p, type) ==
  IF type = DHCPDISCOVER THEN DHCPOFFER
  ELSE IF \/ p.ciaddr # 0 /\ Bad(p)
          \/ dhcp.bad >= BAD_DHCPREQUEST_NAK_THRESHOLD
       THEN DHCPNAK ELSE DHCPACK

Answer(p, type) ==
  IF type = DHCPDISCOVER THEN DHCPOFFER
  ELSE IF \/ p.ciaddr # 0 /\ Bad(p)
          \/ ~dhcp.discovered
          \/ dhcp.bad >= BAD_DHCPREQUEST_NAK_THRESHOLD
       THEN DHCPNAK ELSE DHCPACK

ProcessDHCP(p) ==
  LET type == GetDHCPMessageType(p.options)
      bad == type = DHCPREQUEST /\ Bad(p)
  IN IF ~p.sane \/ ~p.bootrequest \/ type \notin {DHCPDISCOVER, DHCPREQUEST}
     THEN UNCHANGED <<dhcp, injects, log>>
     ELSE /\ bad => dhcp.bad < MaxBad
          /\ SendDHCPMsg(p, Answer(p, type))
          /\ dhcp' = [dhcp EXCEPT !.discovered = @ \/ type = DHCPDISCOVER,
                                  !.bad = IF bad THEN @ + 1 ELSE @]
          /\ log' = [log EXCEPT !.discovers = @ \/ type = DHCPDISCOVER,
                                !.acks = IF /\ bad /\ injects' # injects
                                            /\ Answer(p, type) = DHCPACK
                                         THEN @ + 1 ELSE @]

-----------------------------------------------------------------------------
(* AdapterTransmit and the read and write requests.                        *)

\* Requests for the address of the virtual server, and what is sent to a DHCP
\* server, but for messages of others in one piece.
ServerArp(p) == dhcp.enabled /\ dhcp.arp /\ Asks(p, dhcp.addr, dhcp.server, AddrBits)
ServerDhcp(p) ==
  /\ dhcp.enabled /\ p.kind = "dhcp"
  /\ p.options = <<>> \/ ~p.sane \/ DHCPMessageOurs(p)

TransmitServerArp(p) ==
  /\ ServerArp(p)
  /\ InjectPacketDeferred(ArpReply(p.target, dhcp.mac))
  /\ UNCHANGED <<dhcp, log, packets, irp, count>>

TransmitServerDhcp(p) ==
  /\ ServerDhcp(p)
  /\ IF p.options = <<>> THEN UNCHANGED <<dhcp, injects, log>> ELSE ProcessDHCP(p)
  /\ UNCHANGED <<packets, irp, count>>

\* Point-to-point mode swallows ARP, answered or not.
TransmitTunArp(p) ==
  /\ tun.tun /\ p.kind = "arp"
  /\ IF Asks(p, tun.localIP, tun.network, tun.netmask)
     THEN InjectPacketDeferred(ArpReply(p.target, tun.user))
     ELSE UNCHANGED injects
  /\ UNCHANGED <<dhcp, log, packets, irp, count>>

\* Without memory for the reply the solicitation goes to the program.
HandleIPv6NeighborDiscovery(p) ==
  /\ tun.tun /\ p.kind = "ipv6" /\ p.solicits /\ ~p.short
  /\ InjectPacketDeferred(NeighbourReply)
  /\ UNCHANGED <<dhcp, log, packets, irp, count>>

\* IPv4 must be directed to the far end, and nothing but IP passes.
Carried(p) ==
  \/ ~tun.tun
  \/ p.kind = "ipv6" /\ ~p.short
  \/ p.kind \in {"ipv4", "dhcp"} /\ ~p.short /\ p.dest = tun.user

TransmitDrop(p) ==
  /\ ~Carried(p) /\ p.kind # "arp"
  /\ UNCHANGED <<dhcp, log, injects, packets, irp, count>>

Pushed ==
  packets' = IF Len(packets) < PacketCap THEN Append(packets, count') ELSE packets

\* The waiting read is completed.  One whose OVERLAPPED is gone completes for
\* nobody.
Completed(state, n) ==
  irp' = IF irp.state = "pending" THEN [state |-> state, n |-> n] ELSE NoRead

TransmitQueue(p) ==
  /\ Carried(p) /\ count < MaxFrames /\ count' = count + 1
  /\ IF Waiting THEN Completed("done", count') /\ UNCHANGED packets
     ELSE Pushed /\ UNCHANGED irp
  /\ UNCHANGED <<dhcp, log, injects>>

AdapterTransmit(p) ==
  /\ opener # "none" /\ media # 0
  /\ \/ TransmitServerArp(p) \/ TransmitServerDhcp(p)
     \/ /\ ~ServerArp(p) /\ ~ServerDhcp(p)
        /\ \/ TransmitTunArp(p) \/ HandleIPv6NeighborDiscovery(p)
           \/ TransmitDrop(p) \/ TransmitQueue(p)
  /\ heard' = Silence /\ UNCHANGED <<opener, always, media, tun>>

\* IRP_MJ_READ answers with the oldest packet or waits.
ReadPops == ~Waiting /\ packets # <<>> /\ packets' = Tail(packets)
ReadPends == ~Waiting /\ packets = <<>> /\ irp' = [state |-> "pending", n |-> 0]

\* IRP_MJ_WRITE.  Too short a buffer is refused.
Write(version, short) ==
  /\ heard' = IF short THEN Silence
              ELSE IF tun.tun
              THEN [kind |-> "tunnelled", mac |-> tun.user, version |-> version]
              ELSE [kind |-> "frame"]
  /\ UNCHANGED <<opener, always, media, tun, dhcp, packets, injects, irp, count, log>>

\* CancelIRPCallback: the thread that issued the read is gone.
Cancel ==
  /\ Waiting /\ Completed("cancelled", 0) /\ heard' = Silence
  /\ UNCHANGED <<opener, always, media, tun, dhcp, packets, injects, count, log>>

-----------------------------------------------------------------------------
(* Another program that uses the device while the library does not.  It    *)
(* configures the modes the library does not know.                         *)

OtherOpens == Create("other") /\ UNCHANGED irp
OtherCloses == opener = "other" /\ Close /\ UNCHANGED irp

OtherConfigures ==
  /\ opener = "other"
  /\ \/ SetMediaStatus(1)
     \/ \E t \in Tunnels : ConfigTun(t) \/ ConfigPointToPoint(t)
     \/ \E s \in Servers : ConfigDhcpMasq(s.addr, s.server)

OtherWrites == opener = "other" /\ \E v \in {4, 6}, short \in BOOLEAN : Write(v, short)

\* What every program sees in the replies and in what the network stack hears:
\*  - a reply names a hardware address, and an ARP reply never the address of
\*    the host that asks;
\*  - an offer or acknowledgement gives an address configured since the device
\*    was opened, an acknowledgement comes after a DHCPDISCOVER of the same
\*    opening, and at most BAD_DHCPREQUEST_NAK_THRESHOLD of them go to requests
\*    that did not name the address, however often it is configured;
\*  - nothing waits to be injected once the device is closed.
RepliesSound ==
  /\ opener = "none" => injects = <<>>
  /\ log.acks <= BAD_DHCPREQUEST_NAK_THRESHOLD
  /\ \A i \in 1 .. Len(injects) :
       LET r == injects[i] IN
       /\ r.mac # ZeroMAC
       /\ r.kind = "dhcp" /\ r.type # DHCPNAK => r.yiaddr \in log.addrs
       /\ r.kind = "dhcp" /\ r.type = DHCPACK => log.discovers
  /\ heard.kind = "tunnelled" => heard.mac # ZeroMAC
=============================================================================
