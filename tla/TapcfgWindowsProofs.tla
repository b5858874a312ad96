------------------------- MODULE TapcfgWindowsProofs -------------------------
(***************************************************************************)
(* Proofs about TapcfgWindows and the driver it talks to (WinTapMasq): the *)
(* type invariant, that the replies of the driver are sound, that the      *)
(* library knows its device, and that reads hand out frames as TapDevice   *)
(* says.                                                                   *)
(***************************************************************************)
EXTENDS TapcfgWindows, SequenceTheorems, WellFoundedInduction, TLAPS

(* TapTypeOK and TypeOK, by part. *)
PortTypes ==
  /\ opener \in {"none", "lib", "other"} /\ always \in BOOLEAN /\ media \in 0 .. 255
  /\ packets \in Seq(Frames) /\ Len(packets) <= PacketCap
  /\ irp \in Read /\ count \in 0 .. MaxFrames
Heards == [kind : {"none", "reply", "frame"}]
          \cup [kind : {"tunnelled"}, mac : MACs, version : {4, 6}]
Logs == [addrs : SUBSET Addrs, discovers : BOOLEAN, acks : Nat]
ModeTypes == tun \in Tun /\ dhcp \in Dhcp /\ log \in Logs
ReplyTypes == injects \in Seq(Reply) /\ Len(injects) <= InjectCap
HandleTypes ==
  /\ registry \in Registries /\ alive \in BOOLEAN
  /\ started \in BOOLEAN /\ dev_handle \in BOOLEAN /\ reading \in BOOLEAN
  /\ ifname \in STRING /\ status \in Flags /\ again \in BOOLEAN
  /\ inbuf \in Seq(Frames) /\ Len(inbuf) <= 1
  /\ taken \in Seq(Frames)
Types ==
  PortTypes /\ ModeTypes /\ ReplyTypes /\ heard \in Heards /\ HandleTypes

(* What the driver answers with: RepliesSound, the modes that make it so, and
   that a device nobody has open keeps nothing. *)
Sound(r, l) ==
  /\ r.mac # ZeroMAC
  /\ r.kind = "dhcp" /\ r.type # DHCPNAK => r.yiaddr \in l.addrs
  /\ r.kind = "dhcp" /\ r.type = DHCPACK => l.discovers
ModeInv ==
  /\ dhcp.enabled => dhcp.mac # ZeroMAC /\ dhcp.addr \in log.addrs
  /\ tun.tun => tun.user # ZeroMAC
  /\ dhcp.discovered => log.discovers
  /\ log.acks <= dhcp.bad /\ log.acks <= BAD_DHCPREQUEST_NAK_THRESHOLD
QueuedInv ==
  /\ opener = "none" => injects = <<>> /\ packets = <<>>
  /\ \A i \in 1 .. Len(injects) : Sound(injects[i], log)
HeardInv == heard.kind = "tunnelled" => heard.mac # ZeroMAC
MasqInv == ModeInv /\ QueuedInv /\ HeardInv

(* What the library believes of its device (HandleCoherent), and that a device
   nobody has open is not connected. *)
BeliefInv ==
  /\ dev_handle <=> started
  /\ started => opener = "lib"
  /\ ~started => status = 0
  /\ started /\ ~always => media = status % 256
  /\ opener = "none" /\ ~always => media = 0
  /\ started /\ ~again => \E i \in DOMAIN registry.panel :
                            registry.panel[i].name = ifname /\ registry.panel[i].guid = Guid

(* The read of the handle: a read that waits keeps the device open and leaves
   no packet behind, and the handle it is of holds no frame. *)
ReadInv ==
  /\ reading <=> irp.state \in {"pending", "done", "cancelled"}
  /\ reading => inbuf = <<>>
  /\ Waiting => opener = "lib" /\ packets = <<>>
  /\ irp.state = "orphan" => ~started /\ inbuf = <<>>
  /\ irp.state = "done" => irp.n \in Frames

-----------------------------------------------------------------------------
(* Addresses and modes. *)

LEMMA AddrsFacts ==
    /\ 2 ^ AddrBits \in Nat \ {0} /\ 0 \in Addrs /\ Addrs \subseteq Nat
    /\ \A x \in Int : x % 2 ^ AddrBits \in Addrs
<1>1. 2 ^ AddrBits \in Nat \ {0}
  BY MasqAssumption
<1>2. PICK b \in Nat \ {0} : b = 2 ^ AddrBits
  BY <1>1
<1>3. Addrs = 0 .. b - 1
  BY <1>2 DEF Addrs
<1> QED
  BY <1>2, <1>3

LEMMA MacsFacts ==
    /\ ZeroMAC \in MACs /\ GenerateRelatedMAC(1) \in MACs \ {ZeroMAC}
    /\ GenerateRelatedMAC(2) \in MACs \ {ZeroMAC} /\ BroadcastMAC \in MACs /\ AdapterMAC \in MACs
BY DEF MACs, GenerateRelatedMAC, ZeroMAC, BroadcastMAC, AdapterMAC

LEMMA BlankModes ==
    NoTun \in Tun /\ ~NoTun.tun /\ NoDhcp \in Dhcp /\ ~NoDhcp.enabled /\ ~NoDhcp.discovered
    /\ NoDhcp.bad = 0 /\ Blank \in Logs /\ Blank.acks = 0
BY AddrsFacts, MacsFacts, MasqAssumption
DEF NoTun, NoDhcp, Blank, Tun, Dhcp, Logs, DHCP_USER_SUPPLIED_OPTIONS_BUFFER_SIZE

\* The far end takes over the DHCP server of its network, nothing else changes.
LEMMA CheckedModes ==
    ASSUME NEW t \in Tun, NEW d \in Dhcp, NEW e, e = CheckIfDhcpAndTunMode(t, d)
    PROVE  /\ e \in Dhcp /\ e.enabled = d.enabled /\ e.addr = d.addr
           /\ e.discovered = d.discovered /\ e.bad = d.bad
           /\ e.mac = d.mac \/ (t.tun /\ e.mac = t.user)
<1>1. t.user \in MACs
  BY DEF Tun
<1>2. CASE e = d
  BY <1>2
<1>3. CASE e = [d EXCEPT !.mac = t.user, !.arp = FALSE] /\ t.tun
  <2>1. [d EXCEPT !.mac = t.user] \in Dhcp
    BY <1>1 DEF Dhcp
  <2>2. e \in Dhcp
    BY <1>1, <1>3 DEF Dhcp
  <2> QED
    BY <1>3, <2>2 DEF Dhcp
<1> QED
  BY <1>2, <1>3 DEF CheckIfDhcpAndTunMode

LEMMA ModesStay ==
    ASSUME ModeTypes, ModeInv, UNCHANGED <<tun, dhcp, log>> PROVE ModeTypes' /\ ModeInv'
<1>1. ModeTypes'
  BY DEF ModeTypes
<1>2. ModeInv'
  BY DEF ModeInv
<1> QED
  BY <1>1, <1>2

\* The DHCP server an ioctl asks for.
Asked(d, a, s, m) ==
  [d EXCEPT !.enabled = TRUE, !.arp = TRUE, !.options = 0, !.addr = a, !.server = s, !.mac = m]
LEMMA AskedModes ==
    ASSUME NEW d \in Dhcp, NEW a \in Addrs, NEW s \in Addrs, NEW m \in MACs
    PROVE  /\ Asked(d, a, s, m) \in Dhcp /\ Asked(d, a, s, m).enabled
           /\ Asked(d, a, s, m).addr = a /\ Asked(d, a, s, m).mac = m
           /\ Asked(d, a, s, m).discovered = d.discovered /\ Asked(d, a, s, m).bad = d.bad
<1>1. 0 \in 0 .. DHCP_USER_SUPPLIED_OPTIONS_BUFFER_SIZE
  BY DEF DHCP_USER_SUPPLIED_OPTIONS_BUFFER_SIZE
<1>2. [d EXCEPT !.enabled = TRUE] \in Dhcp
  BY DEF Dhcp
<1>3. Asked(d, a, s, m) \in Dhcp
  BY <1>1, <1>2 DEF Asked, Dhcp
<1> QED
  BY <1>3 DEF Asked, Dhcp

\* The DHCP server an ioctl asks for, checked against the mode of the tunnel.
LEMMA AskedChecked ==
    ASSUME NEW t \in Tun, NEW d \in Dhcp, NEW a \in Addrs, NEW s \in Addrs, NEW m \in MACs,
           NEW e, e = CheckIfDhcpAndTunMode(t, Asked(d, a, s, m))
    PROVE  /\ e \in Dhcp /\ e.addr = a /\ e.discovered = d.discovered /\ e.bad = d.bad
           /\ e.mac = m \/ (t.tun /\ e.mac = t.user)
<1>1. PICK f : f = Asked(d, a, s, m)
  OBVIOUS
<1>2. /\ Asked(d, a, s, m) \in Dhcp /\ Asked(d, a, s, m).enabled
      /\ Asked(d, a, s, m).addr = a /\ Asked(d, a, s, m).mac = m
      /\ Asked(d, a, s, m).discovered = d.discovered /\ Asked(d, a, s, m).bad = d.bad
  BY AskedModes
<1>3. /\ f \in Dhcp /\ f.addr = a /\ f.mac = m
      /\ f.discovered = d.discovered /\ f.bad = d.bad
  BY <1>1, <1>2
<1>4. e = CheckIfDhcpAndTunMode(t, f)
  BY <1>1
<1>5. /\ e \in Dhcp /\ e.addr = f.addr /\ e.discovered = f.discovered /\ e.bad = f.bad
      /\ e.mac = f.mac \/ (t.tun /\ e.mac = t.user)
  BY <1>3, <1>4, CheckedModes
<1> QED
  BY <1>3, <1>5

LEMMA MasqModes ==
    ASSUME ModeTypes, ModeInv, NEW a \in Addrs, NEW s \in Addrs, ConfigDhcpMasq(a, s)
    PROVE  ModeTypes' /\ ModeInv' /\ Configures
<1>1. PICK m : m = GenerateRelatedMAC(2)
  OBVIOUS
<1>2. m \in MACs /\ m # ZeroMAC
  BY <1>1, MacsFacts
<1>3. PICK c, u, e : c = dhcp /\ u = tun /\ e = dhcp'
  OBVIOUS
<1>4. c \in Dhcp /\ u \in Tun
  BY <1>3 DEF ModeTypes
<1>5. e = CheckIfDhcpAndTunMode(u, Asked(c, a, s, m))
  BY <1>1, <1>3 DEF ConfigDhcpMasq, Asked
<1>6. /\ e \in Dhcp /\ e.addr = a /\ e.discovered = c.discovered /\ e.bad = c.bad
      /\ e.mac = m \/ (u.tun /\ e.mac = u.user)
  BY <1>2, <1>4, <1>5, AskedChecked
<1>7. /\ log' \in Logs /\ a \in log'.addrs /\ log'.discovers = log.discovers
      /\ log'.acks = log.acks /\ tun' = tun /\ Configures
  BY DEF ConfigDhcpMasq, ModeTypes, Logs
<1> QED
  BY <1>2, <1>3, <1>6, <1>7 DEF ModeTypes, ModeInv

\* A mode of the tunnel, and the DHCP server that is checked against it.
LEMMA TunnelledModes ==
    ASSUME ModeTypes, ModeInv, NEW t \in [localIP : Addrs, network : Addrs, netmask : 0 .. AddrBits],
           Tunnelled(t), log' = log
    PROVE  ModeTypes' /\ ModeInv'
<1>1. tun' \in Tun /\ tun'.user # ZeroMAC
  <2>1. PICK m : m = GenerateRelatedMAC(1)
    OBVIOUS
  <2>2. m \in MACs /\ m # ZeroMAC
    BY <2>1, MacsFacts
  <2>3. tun' = [tun |-> TRUE, localIP |-> t.localIP, network |-> t.network,
                netmask |-> t.netmask, user |-> m]
    BY <2>1 DEF Tunnelled
  <2> QED
    BY <2>2, <2>3 DEF Tun
<1>2. PICK u \in Tun : u = tun'
  BY <1>1
<1>3. dhcp' = CheckIfDhcpAndTunMode(u, dhcp)
  BY <1>2 DEF Tunnelled
<1>4. /\ dhcp' \in Dhcp /\ dhcp'.enabled = dhcp.enabled /\ dhcp'.addr = dhcp.addr
      /\ dhcp'.discovered = dhcp.discovered /\ dhcp'.bad = dhcp.bad
      /\ dhcp'.mac = dhcp.mac \/ dhcp'.mac = u.user
  <2>1. PICK e : e = dhcp'
    OBVIOUS
  <2> QED
    BY <1>3, <2>1, CheckedModes DEF ModeTypes
<1> QED
  BY <1>1, <1>2, <1>4 DEF ModeTypes, ModeInv

\* What the ioctls leave behind.
LEMMA ConfigModes ==
    ASSUME ModeTypes, ModeInv,
           \/ \E parm : SetMediaStatus(parm)
           \/ \E t \in Tunnels : ConfigTun(t) \/ ConfigPointToPoint(t)
           \/ \E a \in Addrs, s \in Addrs : ConfigDhcpMasq(a, s)
           \/ \E size \in OptionSizes : ConfigDhcpSetOpt(size)
    PROVE  ModeTypes' /\ ModeInv' /\ Configures
<1>2. ASSUME NEW parm, SetMediaStatus(parm) PROVE ModeTypes' /\ ModeInv' /\ Configures
  BY <1>2, ModesStay DEF SetMediaStatus
<1>3. ASSUME NEW t \in Tunnels, ConfigTun(t) PROVE ModeTypes' /\ ModeInv' /\ Configures
  <2>1. t \in [localIP : Addrs, network : Addrs, netmask : 0 .. AddrBits]
    BY MasqAssumption
  <2>2. CASE Tunnelled(t)
    BY <1>3, <2>1, <2>2, TunnelledModes DEF ConfigTun
  <2>3. CASE /\ dhcp' = dhcp
             /\ tun' = [tun EXCEPT !.tun = FALSE, !.localIP = t.localIP,
                                   !.network = t.network, !.netmask = t.netmask]
    <3>1. tun' \in Tun /\ ~tun'.tun
      <4>1. tun \in Tun
        BY DEF ModeTypes
      <4>2. [tun EXCEPT !.tun = FALSE] \in Tun
        BY <4>1 DEF Tun
      <4> QED
        BY <2>1, <2>3, <4>1 DEF Tun
    <3> QED
      BY <1>3, <2>3, <3>1 DEF ConfigTun, ModeTypes, ModeInv
  <2> QED
    BY <1>3, <2>2, <2>3 DEF ConfigTun
<1>4. ASSUME NEW t \in Tunnels, ConfigPointToPoint(t) PROVE ModeTypes' /\ ModeInv' /\ Configures
  <2>1. [t EXCEPT !.netmask = AddrBits] \in [localIP : Addrs, network : Addrs, netmask : 0 .. AddrBits]
    BY MasqAssumption
  <2> QED
    BY <1>4, <2>1, TunnelledModes DEF ConfigPointToPoint
<1>5. ASSUME NEW a \in Addrs, NEW s \in Addrs, ConfigDhcpMasq(a, s)
      PROVE  ModeTypes' /\ ModeInv' /\ Configures
  BY <1>5, MasqModes
<1>6. ASSUME NEW size \in OptionSizes, ConfigDhcpSetOpt(size)
      PROVE  ModeTypes' /\ ModeInv' /\ Configures
  <2>1. size \in 0 .. DHCP_USER_SUPPLIED_OPTIONS_BUFFER_SIZE
    BY <1>6, MasqAssumption DEF ConfigDhcpSetOpt, DHCP_USER_SUPPLIED_OPTIONS_BUFFER_SIZE
  <2>2. dhcp' = [dhcp EXCEPT !.options = size] /\ tun' = tun /\ log' = log /\ Configures
    BY <1>6 DEF ConfigDhcpSetOpt
  <2> QED
    BY <2>1, <2>2 DEF ModeTypes, ModeInv, Dhcp
<1> QED
  BY <1>2, <1>3, <1>4, <1>5, <1>6

-----------------------------------------------------------------------------
(* Replies. *)

AllSound(l) == \A i \in 1 .. Len(injects) : Sound(injects[i], l)

LEMMA KeptSound ==
    ASSUME ReplyTypes, NEW l, AllSound(l), UNCHANGED injects
    PROVE  ReplyTypes' /\ \A i \in 1 .. Len(injects') : Sound(injects'[i], l)
BY DEF ReplyTypes, AllSound, Sound

LEMMA InjectedSound ==
    ASSUME ReplyTypes, NEW l, AllSound(l), NEW r \in Reply, Sound(r, l), InjectPacketDeferred(r)
    PROVE  ReplyTypes' /\ \A i \in 1 .. Len(injects') : Sound(injects'[i], l)
<1>1. CASE injects' = injects
  BY <1>1, KeptSound
<1>2. CASE injects' = Append(injects, r) /\ Len(injects) < InjectCap
  <2>1. /\ injects' \in Seq(Reply) /\ Len(injects') = Len(injects) + 1
        /\ \A i \in 1 .. Len(injects') : injects'[i] = IF i \in 1 .. Len(injects) THEN injects[i] ELSE r
    BY <1>2 DEF ReplyTypes
  <2>2. Len(injects') <= InjectCap
    BY <1>2, <2>1, MasqAssumption DEF ReplyTypes
  <2>3. ASSUME NEW i \in 1 .. Len(injects') PROVE Sound(injects'[i], l)
    <3>1. CASE i \in 1 .. Len(injects)
      BY <2>1, <3>1 DEF AllSound
    <3>2. CASE i \notin 1 .. Len(injects)
      BY <2>1, <3>2
    <3> QED
      BY <3>1, <3>2
  <2> QED
    BY <2>1, <2>2, <2>3 DEF ReplyTypes
<1> QED
  BY <1>1, <1>2 DEF InjectPacketDeferred

\* The logs of the opening that are the same as l or say more.
More(l, m) == l.addrs \subseteq m.addrs /\ (l.discovers => m.discovers)

LEMMA MoreSound ==
    ASSUME NEW l, NEW m, More(l, m), AllSound(l) PROVE AllSound(m)
BY DEF More, AllSound, Sound

LEMMA ArpSound ==
    ASSUME NEW l, NEW ip \in Addrs, NEW mac \in MACs, mac # ZeroMAC
    PROVE  ArpReply(ip, mac) \in Reply /\ Sound(ArpReply(ip, mac), l)
<1> DEFINE r == [kind |-> "arp", ip |-> ip, mac |-> mac]
<1>1. r \in [kind : {"arp"}, ip : Addrs, mac : MACs]
  OBVIOUS
<1>2. r.mac # ZeroMAC /\ r.kind # "dhcp"
  OBVIOUS
<1> HIDE DEF r
<1>3. r \in Reply /\ Sound(r, l)
  BY <1>1, <1>2 DEF Reply, Sound
<1> QED
  BY <1>3 DEF r, ArpReply

LEMMA NeighbourSound ==
    ASSUME ModeTypes, ModeInv, tun.tun, NEW l
    PROVE  NeighbourReply \in Reply /\ Sound(NeighbourReply, l)
<1>1. PICK mac : mac = tun.user
  OBVIOUS
<1>2. mac \in MACs /\ mac # ZeroMAC
  BY <1>1 DEF ModeTypes, ModeInv, Tun
<1> DEFINE r == [kind |-> "neighbour", mac |-> mac]
<1>3. r \in [kind : {"neighbour"}, mac : MACs]
  BY <1>2
<1>4. r.mac # ZeroMAC /\ r.kind # "dhcp"
  BY <1>2
<1> HIDE DEF r
<1>5. r \in Reply /\ Sound(r, l)
  BY <1>3, <1>4 DEF Reply, Sound
<1> QED
  BY <1>1, <1>5 DEF r, NeighbourReply

\* The message the DHCP server builds.
LEMMA BuiltSound ==
    ASSUME ModeTypes, ModeInv, dhcp.enabled, NEW l, dhcp.addr \in l.addrs, NEW p,
           NEW type \in {DHCPOFFER, DHCPACK, DHCPNAK}, type = DHCPACK => l.discovers
    PROVE  BuildDHCPPre(p, type) \in Reply /\ Sound(BuildDHCPPre(p, type), l)
<1>1. PICK mac, server, addr : mac = dhcp.mac /\ server = dhcp.server /\ addr = dhcp.addr
  OBVIOUS
<1>2. mac \in MACs /\ mac # ZeroMAC /\ server \in Addrs /\ addr \in Addrs
  BY <1>1 DEF ModeTypes, ModeInv, Dhcp
<1>3. PICK dest, yiaddr :
         /\ dest = IF type = DHCPNAK \/ p.dest = BroadcastMAC THEN BroadcastMAC ELSE AdapterMAC
         /\ yiaddr = IF type = DHCPNAK THEN 0 ELSE addr
  OBVIOUS
<1>4. dest \in MACs /\ yiaddr \in Addrs
  BY <1>2, <1>3, MacsFacts, AddrsFacts
<1> DEFINE r == [kind |-> "dhcp", type |-> type, mac |-> mac, server |-> server,
                 dest |-> dest, yiaddr |-> yiaddr]
<1>5. r \in [kind : {"dhcp"}, type : {DHCPOFFER, DHCPACK, DHCPNAK}, mac : MACs,
              dest : MACs, yiaddr : Addrs, server : Addrs]
  BY <1>2, <1>4
<1>6. r.mac = mac /\ r.type = type /\ r.yiaddr = yiaddr
  OBVIOUS
<1>7. r = BuildDHCPPre(p, type)
  BY <1>1, <1>3 DEF BuildDHCPPre
<1> HIDE DEF r
<1>8. r \in Reply
  BY <1>5 DEF Reply
<1>9. Sound(r, l)
  BY <1>1, <1>2, <1>3, <1>6 DEF Sound
<1> QED
  BY <1>7, <1>8, <1>9

LEMMA AnswerType ==
    ASSUME NEW p, NEW type \in {DHCPDISCOVER, DHCPREQUEST}
    PROVE  /\ Answer(p, type) \in {DHCPOFFER, DHCPACK, DHCPNAK}
           /\ Answer(p, type) = DHCPACK =>
                 dhcp.discovered /\ ~(dhcp.bad >= BAD_DHCPREQUEST_NAK_THRESHOLD)
BY DEF Answer, DHCPOFFER, DHCPACK, DHCPNAK, DHCPDISCOVER, DHCPREQUEST

LEMMA ProcessSound ==
    ASSUME ModeTypes, ModeInv, ReplyTypes, AllSound(log), dhcp.enabled, NEW p, ProcessDHCP(p),
           UNCHANGED tun
    PROVE  /\ ModeTypes' /\ ModeInv' /\ ReplyTypes'
           /\ \A i \in 1 .. Len(injects') : Sound(injects'[i], log')
<1>1. PICK type : type = GetDHCPMessageType(p.options)
  OBVIOUS
<1>2. PICK bad : bad = (type = DHCPREQUEST /\ Bad(p))
  OBVIOUS
<1>3. CASE ~p.sane \/ ~p.bootrequest \/ type \notin {DHCPDISCOVER, DHCPREQUEST}
  <2>1. UNCHANGED <<dhcp, injects, log>>
    BY <1>1, <1>3 DEF ProcessDHCP
  <2>2. PICK l : l = log
    OBVIOUS
  <2>3. ModeTypes' /\ ModeInv'
    BY <2>1, ModesStay
  <2> QED
    BY <2>1, <2>2, <2>3, KeptSound
<1>4. CASE ~(~p.sane \/ ~p.bootrequest \/ type \notin {DHCPDISCOVER, DHCPREQUEST})
  <2>1. PICK a : a = Answer(p, type)
    OBVIOUS
  <2>2. PICK ack : ack = (bad /\ injects' # injects /\ a = DHCPACK)
    OBVIOUS
  <2>3. /\ bad => dhcp.bad < MaxBad
        /\ SendDHCPMsg(p, a)
        /\ dhcp' = [dhcp EXCEPT !.discovered = @ \/ type = DHCPDISCOVER,
                                !.bad = IF bad THEN @ + 1 ELSE @]
        /\ log' = [log EXCEPT !.discovers = @ \/ type = DHCPDISCOVER,
                              !.acks = IF ack THEN @ + 1 ELSE @]
    BY <1>1, <1>2, <1>4, <2>1, <2>2 DEF ProcessDHCP
  <2>4. /\ a \in {DHCPOFFER, DHCPACK, DHCPNAK}
        /\ a = DHCPACK => dhcp.discovered /\ ~(dhcp.bad >= BAD_DHCPREQUEST_NAK_THRESHOLD)
    BY <1>4, <2>1, AnswerType
  <2>5. /\ dhcp' \in Dhcp /\ dhcp'.enabled = dhcp.enabled /\ dhcp'.mac = dhcp.mac
        /\ dhcp'.addr = dhcp.addr /\ dhcp'.discovered = (dhcp.discovered \/ type = DHCPDISCOVER)
        /\ dhcp'.bad = IF bad THEN dhcp.bad + 1 ELSE dhcp.bad
    <3>1. PICK disc, n : /\ disc = (dhcp.discovered \/ type = DHCPDISCOVER)
                         /\ n = IF bad THEN dhcp.bad + 1 ELSE dhcp.bad
      OBVIOUS
    <3>2. dhcp \in Dhcp /\ disc \in BOOLEAN /\ n \in 0 .. MaxBad
      <4>1. dhcp \in Dhcp /\ dhcp.bad \in 0 .. MaxBad /\ dhcp.discovered \in BOOLEAN
        BY DEF ModeTypes, Dhcp
      <4> QED
        BY <2>3, <3>1, <4>1, MasqAssumption
    <3>3. dhcp' = [dhcp EXCEPT !.discovered = disc, !.bad = n]
      BY <2>3, <3>1
    <3>4. [dhcp EXCEPT !.discovered = disc] \in Dhcp
      BY <3>2 DEF Dhcp
    <3>5. dhcp' \in Dhcp
      BY <3>2, <3>3, <3>4 DEF Dhcp
    <3> QED
      BY <3>1, <3>2, <3>3, <3>5 DEF Dhcp
  <2>6. /\ log' \in Logs /\ log'.addrs = log.addrs
        /\ log'.discovers = (log.discovers \/ type = DHCPDISCOVER)
        /\ log'.acks = IF ack THEN log.acks + 1 ELSE log.acks
    <3>1. PICK disc, n : /\ disc = (log.discovers \/ type = DHCPDISCOVER)
                         /\ n = IF ack THEN log.acks + 1 ELSE log.acks
      OBVIOUS
    <3>2. log \in Logs /\ disc \in BOOLEAN /\ n \in Nat
      <4>1. log \in Logs /\ log.acks \in Nat /\ log.discovers \in BOOLEAN
        BY DEF ModeTypes, Logs
      <4> QED
        BY <3>1, <4>1
    <3>3. log' = [log EXCEPT !.discovers = disc, !.acks = n]
      BY <2>3, <3>1
    <3>4. [log EXCEPT !.discovers = disc] \in Logs
      BY <3>2 DEF Logs
    <3>5. log' \in Logs
      BY <3>2, <3>3, <3>4 DEF Logs
    <3> QED
      BY <3>1, <3>2, <3>3, <3>5 DEF Logs
  <2>7. ModeTypes'
    BY <2>5, <2>6 DEF ModeTypes
  <2>8. log'.acks <= dhcp'.bad /\ log'.acks <= BAD_DHCPREQUEST_NAK_THRESHOLD
    <3>1. dhcp.bad \in Nat /\ log.acks \in Nat
      BY DEF ModeTypes, Dhcp, Logs
    <3>2. log.acks <= dhcp.bad /\ log.acks <= BAD_DHCPREQUEST_NAK_THRESHOLD
      BY DEF ModeInv
    <3>3. ack => bad /\ ~(dhcp.bad >= BAD_DHCPREQUEST_NAK_THRESHOLD)
      BY <2>2, <2>4
    <3> QED
      BY <2>5, <2>6, <3>1, <3>2, <3>3, MasqAssumption
  <2>9. ModeInv'
    BY <2>5, <2>6, <2>8 DEF ModeInv
  <2>10. PICK m, r : m = log' /\ r = BuildDHCPPre(p, a)
    OBVIOUS
  <2>11. AllSound(m)
    <3>1. PICK l : l = log
      OBVIOUS
    <3>2. More(l, m)
      BY <2>6, <2>10, <3>1 DEF More
    <3> QED
      BY <3>1, <3>2, MoreSound
  <2>12. r \in Reply /\ Sound(r, m)
    <3>1. dhcp.addr \in m.addrs /\ (a = DHCPACK => m.discovers)
      BY <2>4, <2>6, <2>10 DEF ModeInv
    <3> QED
      BY <2>4, <2>10, <3>1, BuiltSound
  <2>13. InjectPacketDeferred(r) \/ UNCHANGED injects
    BY <2>3, <2>10 DEF SendDHCPMsg
  <2>14. ReplyTypes' /\ \A i \in 1 .. Len(injects') : Sound(injects'[i], m)
    BY <2>11, <2>12, <2>13, KeptSound, InjectedSound
  <2> QED
    BY <2>7, <2>9, <2>10, <2>14
<1> QED
  BY <1>3, <1>4

-----------------------------------------------------------------------------
(* The steps of the driver. *)

Driver ==
  PortTypes /\ ModeTypes /\ ReplyTypes /\ heard \in Heards /\ MasqInv

LEMMA SilenceHeard ==
    ASSUME heard' = Silence PROVE heard' \in Heards /\ HeardInv'
<1> DEFINE r == [kind |-> "none"]
<1>1. r \in [kind : {"none", "reply", "frame"}] /\ r.kind # "tunnelled"
  OBVIOUS
<1>2. r = heard'
  BY DEF Silence
<1> HIDE DEF r
<1> QED
  BY <1>1, <1>2 DEF Heards, HeardInv

LEMMA DriverInit == ASSUME TapInit PROVE Driver
<1>1. PortTypes
  <2>1. NoRead \in Read
    BY DEF NoRead, Read
  <2>2. media \in 0 .. 255 /\ packets \in Seq(Frames) /\ Len(packets) <= PacketCap
    BY MasqAssumption DEF TapInit
  <2> QED
    BY <2>1, <2>2, MasqAssumption DEF TapInit, PortTypes
<1>2. ModeTypes /\ ModeInv
  BY BlankModes, MasqAssumption DEF TapInit, ModeTypes, ModeInv
<1>3. ReplyTypes /\ QueuedInv
  <2>1. injects = <<>> /\ packets = <<>>
    BY DEF TapInit
  <2> QED
    BY <2>1, MasqAssumption DEF ReplyTypes, QueuedInv
<1>4. heard \in Heards /\ HeardInv
  <2> DEFINE r == [kind |-> "none"]
  <2>1. r \in [kind : {"none", "reply", "frame"}] /\ r.kind # "tunnelled"
    OBVIOUS
  <2>2. r = heard
    BY DEF TapInit, Silence
  <2> HIDE DEF r
  <2> QED
    BY <2>1, <2>2 DEF Heards, HeardInv
<1> QED
  BY <1>1, <1>2, <1>3, <1>4 DEF Driver, MasqInv

\* A step that only reads, or completes a read.
LEMMA QuietDriver ==
    ASSUME Driver, UNCHANGED <<opener, always, media, tun, dhcp, injects, count, log>>,
           heard' = Silence, irp' \in Read,
           packets' = packets \/ (packets # <<>> /\ packets' = Tail(packets))
    PROVE  Driver'
<1>1. packets' \in Seq(Frames) /\ Len(packets') <= PacketCap
  <2>1. packets \in Seq(Frames) /\ Len(packets) <= PacketCap
    BY DEF Driver, PortTypes
  <2>2. packets # <<>> => /\ Tail(packets) \in Seq(Frames)
                          /\ Len(Tail(packets)) = Len(packets) - 1 /\ Len(packets) \in Nat
    BY <2>1
  <2> QED
    BY <2>1, <2>2, MasqAssumption
<1>2. PortTypes'
  BY <1>1 DEF Driver, PortTypes
<1>3. ModeTypes' /\ ModeInv'
  BY ModesStay DEF Driver, MasqInv
<1>4. ReplyTypes' /\ QueuedInv'
  BY DEF Driver, MasqInv, QueuedInv, ReplyTypes
<1> QED
  BY <1>2, <1>3, <1>4, SilenceHeard DEF Driver, MasqInv

LEMMA CreateDriver ==
    ASSUME Driver, NEW who \in {"lib", "other"}, Create(who), irp' = irp PROVE Driver'
<1>1. PortTypes'
  BY DEF Create, Driver, PortTypes
<1>2. ModeTypes' /\ ModeInv'
  BY BlankModes, MasqAssumption DEF Create, ResetTapAdapterState, ModeTypes, ModeInv
<1>3. ReplyTypes' /\ QueuedInv'
  <2>1. injects = <<>> /\ injects' = <<>> /\ packets' = packets /\ opener' # "none"
    BY DEF Create, Driver, MasqInv, QueuedInv
  <2> QED
    BY <2>1 DEF Driver, ReplyTypes, QueuedInv
<1> QED
  BY <1>1, <1>2, <1>3, SilenceHeard DEF Create, Driver, MasqInv

LEMMA MediaByte ==
    ASSUME media \in 0 .. 255, NEW n \in Nat PROVE MediaAfter(n) \in 0 .. 255
BY DEF MediaAfter

LEMMA CloseDriver ==
    ASSUME Driver, Close, irp' \in Read PROVE Driver'
<1>1. PortTypes'
  <2>1. media' \in 0 .. 255
    BY MediaByte DEF Close, Driver, PortTypes
  <2>2. packets' \in Seq(Frames) /\ Len(packets') <= PacketCap
    BY MasqAssumption DEF Close
  <2> QED
    BY <2>1, <2>2 DEF Close, Driver, PortTypes
<1>2. ModeTypes' /\ ModeInv'
  BY BlankModes, MasqAssumption DEF Close, ResetTapAdapterState, ModeTypes, ModeInv
<1>3. ReplyTypes' /\ QueuedInv'
  <2>1. injects' = <<>> /\ packets' = <<>>
    BY DEF Close
  <2> QED
    BY <2>1, MasqAssumption DEF ReplyTypes, QueuedInv
<1> QED
  BY <1>1, <1>2, <1>3, SilenceHeard DEF Close, Driver, MasqInv

\* Every opening's log says at least what it said.
LEMMA ConfigDriver ==
    ASSUME Driver,
           \/ \E parm \in Nat : SetMediaStatus(parm)
           \/ \E t \in Tunnels : ConfigTun(t) \/ ConfigPointToPoint(t)
           \/ \E a \in Addrs, s \in Addrs : ConfigDhcpMasq(a, s)
           \/ \E size \in OptionSizes : ConfigDhcpSetOpt(size)
    PROVE  Driver'
<1>1. ModeTypes' /\ ModeInv' /\ Configures
  BY ConfigModes DEF Driver, MasqInv
<1>2. media' \in 0 .. 255
  <2>1. CASE \E parm \in Nat : SetMediaStatus(parm)
    BY <2>1, MediaByte DEF SetMediaStatus, Driver, PortTypes
  <2>2. CASE ~(\E parm \in Nat : SetMediaStatus(parm))
    BY <2>2 DEF ConfigTun, ConfigPointToPoint, ConfigDhcpMasq, ConfigDhcpSetOpt, Driver,
       PortTypes
  <2> QED
    BY <2>1, <2>2
<1>3. PortTypes'
  BY <1>1, <1>2 DEF Configures, Driver, PortTypes
<1>4. PICK l, m : l = log /\ m = log'
  OBVIOUS
<1>5. More(l, m)
  <2>1. CASE m = l
    BY <2>1 DEF More
  <2>2. CASE \E a \in Addrs, s \in Addrs : ConfigDhcpMasq(a, s)
    <3>1. PICK a \in Addrs : log' = [log EXCEPT !.addrs = @ \cup {a}]
      BY <2>2 DEF ConfigDhcpMasq
    <3>2. m.addrs = l.addrs \cup {a} /\ m.discovers = l.discovers
      BY <1>4, <3>1 DEF Driver, ModeTypes, Logs
    <3> QED
      BY <3>2 DEF More
  <2> QED
    BY <1>4, <2>1, <2>2 DEF SetMediaStatus, ConfigTun, ConfigPointToPoint, ConfigDhcpSetOpt
<1>6. ReplyTypes' /\ QueuedInv'
  <2>1. AllSound(m)
    BY <1>4, <1>5, MoreSound DEF Driver, MasqInv, QueuedInv, AllSound
  <2>2. ReplyTypes' /\ \A i \in 1 .. Len(injects') : Sound(injects'[i], m)
    BY <1>1, <2>1, KeptSound DEF Configures, Driver
  <2> QED
    BY <1>1, <1>4, <2>2 DEF Configures, Driver, MasqInv, QueuedInv
<1> QED
  BY <1>1, <1>3, <1>6, SilenceHeard DEF Configures, Driver, MasqInv

LEMMA InjectDriver ==
    ASSUME Driver, InjectPacketDpc PROVE Driver'
<1>1. PortTypes' /\ ModeTypes' /\ ModeInv'
  <2>1. PortTypes'
    BY DEF InjectPacketDpc, Driver, PortTypes
  <2> QED
    BY <2>1, ModesStay DEF InjectPacketDpc, Driver, MasqInv
<1>2. injects \in Seq(Reply) /\ Len(injects) <= InjectCap /\ injects # <<>>
  BY DEF InjectPacketDpc, Driver, ReplyTypes
<1>3. /\ injects' \in Seq(Reply) /\ Len(injects') = Len(injects) - 1 /\ Len(injects) \in Nat
      /\ \A i \in 1 .. Len(injects') : injects'[i] = injects[i + 1] /\ i + 1 \in 1 .. Len(injects)
  BY <1>2 DEF InjectPacketDpc
<1>4. ReplyTypes'
  BY <1>2, <1>3, MasqAssumption DEF ReplyTypes
<1>5. PICK l : l = log
  OBVIOUS
<1>6. \A i \in 1 .. Len(injects') : Sound(injects'[i], l)
  BY <1>3, <1>5 DEF Driver, MasqInv, QueuedInv
<1>7. QueuedInv'
  BY <1>2, <1>5, <1>6 DEF InjectPacketDpc, Driver, MasqInv, QueuedInv
<1>8. heard' \in Heards /\ HeardInv'
  <2> DEFINE r == [kind |-> "reply"]
  <2>1. r \in [kind : {"none", "reply", "frame"}] /\ r.kind # "tunnelled"
    OBVIOUS
  <2>2. r = heard'
    BY DEF InjectPacketDpc
  <2> HIDE DEF r
  <2> QED
    BY <2>1, <2>2 DEF Heards, HeardInv
<1> QED
  BY <1>1, <1>4, <1>7, <1>8 DEF Driver, MasqInv

LEMMA WriteDriver ==
    ASSUME Driver, NEW version \in {4, 6}, NEW short \in BOOLEAN, Write(version, short)
    PROVE  Driver'
<1>1. /\ UNCHANGED <<opener, always, media, packets, irp, count>>
      /\ UNCHANGED <<tun, dhcp, log, injects>>
  BY DEF Write
<1>2. PortTypes'
  BY <1>1 DEF Driver, PortTypes
<1>3. ModeTypes' /\ ModeInv'
  BY <1>1, ModesStay DEF Driver, MasqInv
<1>4. ReplyTypes' /\ QueuedInv'
  BY <1>1 DEF Driver, MasqInv, ReplyTypes, QueuedInv
<1>5. heard' \in Heards /\ HeardInv'
  <2>1. CASE heard' = Silence
    BY <2>1, SilenceHeard
  <2>2. CASE heard' = [kind |-> "frame"]
    <3> DEFINE r == [kind |-> "frame"]
    <3>1. r \in [kind : {"none", "reply", "frame"}] /\ r.kind # "tunnelled"
      OBVIOUS
    <3>2. r = heard'
      BY <2>2
    <3> HIDE DEF r
    <3> QED
      BY <3>1, <3>2 DEF Heards, HeardInv
  <2>3. CASE tun.tun /\ heard' = [kind |-> "tunnelled", mac |-> tun.user, version |-> version]
    <3>1. PICK mac : mac = tun.user
      OBVIOUS
    <3>2. mac \in MACs /\ mac # ZeroMAC
      BY <2>3, <3>1 DEF Driver, ModeTypes, MasqInv, ModeInv, Tun
    <3> DEFINE r == [kind |-> "tunnelled", mac |-> mac, version |-> version]
    <3>3. r \in [kind : {"tunnelled"}, mac : MACs, version : {4, 6}] /\ r.mac # ZeroMAC
      BY <3>2
    <3>4. r = heard'
      BY <2>3, <3>1
    <3> HIDE DEF r
    <3> QED
      BY <3>3, <3>4 DEF Heards, HeardInv
  <2> QED
    BY <2>1, <2>2, <2>3 DEF Write
<1> QED
  BY <1>2, <1>3, <1>4, <1>5 DEF Driver, MasqInv

\* A step that may answer, and leaves the queues of the program alone.
LEMMA ReplyDriver ==
    ASSUME Driver, opener # "none", heard' = Silence,
           UNCHANGED <<opener, always, media, tun, packets, irp, count>>,
           ModeTypes', ModeInv', ReplyTypes',
           \A i \in 1 .. Len(injects') : Sound(injects'[i], log')
    PROVE  Driver'
<1>1. PortTypes'
  BY DEF Driver, PortTypes
<1>2. QueuedInv'
  BY DEF QueuedInv
<1> QED
  BY <1>1, <1>2, SilenceHeard DEF Driver, MasqInv

\* A reply to what the modes of the driver ask for, or none.
LEMMA InjectedDriver ==
    ASSUME Driver, opener # "none", heard' = Silence,
           UNCHANGED <<opener, always, media, tun, packets, irp, count, dhcp, log>>,
           NEW r \in Reply, Sound(r, log), InjectPacketDeferred(r) \/ UNCHANGED injects
    PROVE  Driver'
<1>1. PICK l : l = log
  OBVIOUS
<1>2. AllSound(l)
  BY <1>1 DEF Driver, MasqInv, QueuedInv, AllSound
<1>3. ReplyTypes' /\ \A i \in 1 .. Len(injects') : Sound(injects'[i], l)
  BY <1>1, <1>2, KeptSound, InjectedSound DEF Driver
<1>4. ModeTypes' /\ ModeInv'
  BY ModesStay DEF Driver, MasqInv
<1> QED
  BY <1>1, <1>3, <1>4, ReplyDriver

\* A frame for the program: to the read that waits, or to the queue.
LEMMA QueueDriver ==
    ASSUME Driver, opener # "none", heard' = Silence, NEW p, TransmitQueue(p),
           UNCHANGED <<opener, always, media, tun>>
    PROVE  Driver'
<1>1. PICK n : n = count'
  OBVIOUS
<1>2. n \in Frames /\ n \in Nat /\ count' \in 0 .. MaxFrames
  BY <1>1, MasqAssumption DEF TransmitQueue, Driver, PortTypes, Frames
<1>3. packets' \in Seq(Frames) /\ Len(packets') <= PacketCap
  <2>1. packets \in Seq(Frames) /\ Len(packets) <= PacketCap
    BY DEF Driver, PortTypes
  <2>2. packets' = packets \/ (Len(packets) < PacketCap /\ packets' = Append(packets, n))
    BY <1>1 DEF TransmitQueue, Pushed
  <2>3. Append(packets, n) \in Seq(Frames) /\ Len(Append(packets, n)) = Len(packets) + 1
        /\ Len(packets) \in Nat
    BY <1>2, <2>1
  <2> QED
    BY <2>1, <2>2, <2>3, MasqAssumption
<1>4. irp' \in Read
  <2>1. NoRead \in Read
    BY DEF NoRead, Read
  <2>2. [state |-> "done", n |-> n] \in Read
    BY <1>2 DEF Read
  <2> QED
    BY <1>1, <2>1, <2>2 DEF TransmitQueue, Completed, Driver, PortTypes
<1>5. PortTypes'
  BY <1>2, <1>3, <1>4 DEF Driver, PortTypes
<1>6. ModeTypes' /\ ModeInv'
  BY ModesStay DEF TransmitQueue, Driver, MasqInv
<1>7. ReplyTypes' /\ QueuedInv'
  BY DEF TransmitQueue, Driver, MasqInv, ReplyTypes, QueuedInv
<1> QED
  BY <1>5, <1>6, <1>7, SilenceHeard DEF Driver, MasqInv

LEMMA TransmitDriver ==
    ASSUME Driver, NEW p \in Packets, AdapterTransmit(p) PROVE Driver'
<1>0. opener # "none" /\ heard' = Silence /\ UNCHANGED <<opener, always, media, tun>>
  BY DEF AdapterTransmit
<1>1. CASE TransmitServerArp(p)
  <2>1. PICK mac, ip : mac = dhcp.mac /\ ip = p.target
    OBVIOUS
  <2>2. ip \in Addrs /\ mac \in MACs /\ mac # ZeroMAC
    BY <1>1, <2>1, MasqAssumption
    DEF TransmitServerArp, ServerArp, Asks, Driver, ModeTypes, Dhcp, MasqInv, ModeInv
  <2>3. PICK r : r = ArpReply(ip, mac)
    OBVIOUS
  <2>4. r \in Reply /\ Sound(r, log)
    BY <2>2, <2>3, ArpSound
  <2>5. InjectPacketDeferred(r) /\ UNCHANGED <<dhcp, log, packets, irp, count>>
    BY <1>1, <2>1, <2>3 DEF TransmitServerArp
  <2> QED
    BY <1>0, <2>4, <2>5, InjectedDriver
<1>2. CASE TransmitServerDhcp(p)
  <2>1. UNCHANGED <<packets, irp, count>> /\ dhcp.enabled
    BY <1>2 DEF TransmitServerDhcp, ServerDhcp
  <2>2. PICK l : l = log
    OBVIOUS
  <2>3. AllSound(l)
    BY <2>2 DEF Driver, MasqInv, QueuedInv, AllSound
  <2>4. CASE UNCHANGED <<dhcp, injects, log>>
    <3>1. ReplyTypes' /\ \A i \in 1 .. Len(injects') : Sound(injects'[i], l)
      BY <2>3, <2>4, KeptSound DEF Driver
    <3>2. ModeTypes' /\ ModeInv'
      BY <1>0, <2>4, ModesStay DEF Driver, MasqInv
    <3> QED
      BY <1>0, <2>1, <2>2, <2>4, <3>1, <3>2, ReplyDriver
  <2>5. CASE ProcessDHCP(p)
    <3>1. /\ ModeTypes' /\ ModeInv' /\ ReplyTypes'
          /\ \A i \in 1 .. Len(injects') : Sound(injects'[i], log')
      BY <1>0, <2>1, <2>2, <2>3, <2>5, ProcessSound DEF Driver, MasqInv
    <3> QED
      BY <1>0, <2>1, <3>1, ReplyDriver
  <2> QED
    BY <1>2, <2>4, <2>5 DEF TransmitServerDhcp
<1>3. CASE TransmitTunArp(p)
  <2>1. PICK mac, ip : mac = tun.user /\ ip = p.target
    OBVIOUS
  <2>2. ip \in Addrs /\ mac \in MACs /\ mac # ZeroMAC
        /\ UNCHANGED <<dhcp, log, packets, irp, count>>
    BY <1>3, <2>1, MasqAssumption
    DEF TransmitTunArp, Driver, ModeTypes, Tun, MasqInv, ModeInv
  <2>3. PICK r : r = ArpReply(ip, mac)
    OBVIOUS
  <2>4. r \in Reply /\ Sound(r, log)
    BY <2>2, <2>3, ArpSound
  <2>5. InjectPacketDeferred(r) \/ UNCHANGED injects
    BY <1>3, <2>1, <2>3 DEF TransmitTunArp
  <2> QED
    BY <1>0, <2>2, <2>4, <2>5, InjectedDriver
<1>4. CASE HandleIPv6NeighborDiscovery(p)
  <2>1. PICK l, r : l = log /\ r = NeighbourReply
    OBVIOUS
  <2>2. r \in Reply /\ Sound(r, l)
    BY <1>4, <2>1, NeighbourSound DEF HandleIPv6NeighborDiscovery, Driver, MasqInv
  <2>3. InjectPacketDeferred(r) /\ UNCHANGED <<dhcp, log, packets, irp, count>>
    BY <1>4, <2>1 DEF HandleIPv6NeighborDiscovery
  <2> QED
    BY <1>0, <2>1, <2>2, <2>3, InjectedDriver
<1>5. CASE TransmitDrop(p)
  <2>1. UNCHANGED <<opener, always, media, tun, dhcp, injects, count, log, irp, packets>>
        /\ irp' \in Read
    BY <1>0, <1>5 DEF TransmitDrop, Driver, PortTypes
  <2> QED
    BY <1>0, <2>1, QuietDriver
<1>6. CASE TransmitQueue(p)
  BY <1>0, <1>6, QueueDriver
<1> QED
  BY <1>1, <1>2, <1>3, <1>4, <1>5, <1>6 DEF AdapterTransmit

-----------------------------------------------------------------------------
(* The adapter a name stands for is one the registry lists. *)

LEMMA Largest ==
    ASSUME NEW n \in Nat, NEW T, T \subseteq 1 .. n, T # {}
    PROVE  \E x \in T : \A y \in T : y <= x
<1> DEFINE Below == {n - x : x \in T}
<1>1. Below \subseteq Nat /\ Below # {}
  <2>1. \A x \in T : n - x \in Nat
    OBVIOUS
  <2> QED
    BY <2>1
<1>2. PICK b \in Below : \A c \in Below : ~(<<c, b>> \in OpToRel(<, Nat))
  <2>1. IsWellFoundedOn(OpToRel(<, Nat), Nat)
    BY NatLessThanWellFounded
  <2> QED
    BY <1>1, <2>1, WFMin
<1>3. \A c \in Below : ~(c < b)
  BY <1>1, <1>2 DEF OpToRel
<1>4. PICK x \in T : b = n - x
  OBVIOUS
<1>5. ASSUME NEW y \in T PROVE y <= x
  <2>1. n - y \in Below
    OBVIOUS
  <2>2. ~(n - y < n - x)
    BY <1>3, <1>4, <2>1
  <2> QED
    BY <2>2
<1> QED
  BY <1>5

LEMMA LastIsSeen ==
    ASSUME NEW m \in Nat, NEW n \in Nat, NEW S, S \subseteq (1 .. m) \X (1 .. n), S # {}
    PROVE  LastOf(S) \in S
<1> DEFINE Firsts == {p[1] : p \in S}
<1>1. Firsts \subseteq 1 .. m /\ Firsts # {}
  OBVIOUS
<1>2. PICK i \in Firsts : \A k \in Firsts : k <= i
  <2> HIDE DEF Firsts
  <2> QED
    BY <1>1, Largest
<1> DEFINE Seconds == {p[2] : p \in {q \in S : q[1] = i}}
<1>3. Seconds \subseteq 1 .. n /\ Seconds # {}
  OBVIOUS
<1>4. PICK j \in Seconds : \A k \in Seconds : k <= j
  <2> HIDE DEF Seconds
  <2> QED
    BY <1>3, Largest
<1>5. PICK p \in S : p[1] = i /\ p[2] = j
  OBVIOUS
<1>6. ASSUME NEW q \in S PROVE Until(q, p)
  <2>1. q[1] \in Firsts /\ q[1] \in Nat /\ i \in Nat
    BY <1>1
  <2>2. q[1] <= i
    BY <1>2, <2>1
  <2>3. CASE q[1] = i
    <3>1. q[2] \in Seconds
      BY <2>3
    <3>2. q[2] <= j
      BY <1>4, <3>1
    <3> QED
      BY <1>5, <2>3, <3>2 DEF Until
  <2>4. CASE q[1] # i
    <3>1. q[1] < i
      BY <2>1, <2>2, <2>4
    <3> QED
      BY <1>5, <3>1 DEF Until
  <2> QED
    BY <2>3, <2>4
<1>7. \E x \in S : \A q \in S : Until(q, x)
  BY <1>6
<1> QED
  BY <1>7, Zenon DEF LastOf

LEMMA ChosenAdapter ==
    ASSUME NEW r \in Registries, NEW name, NEW fallback
    PROVE  LET a == tapcfg_fixup_adapters(r, name, fallback) IN
           \/ a = Nothing
           \/ \E j \in DOMAIN r.panel : a.name = r.panel[j].name /\ a.guid = r.panel[j].guid
<1> DEFINE seen == Seen(r)
           named == {p \in seen : r.panel[p[2]].name = name}
           valid == {i \in get_tap_reg(r) : ValidAdapter(r, i)}
           Chosen(p) == [name |-> r.panel[p[2]].name, guid |-> r.panel[p[2]].guid]
           a == tapcfg_fixup_adapters(r, name, fallback)
<1>1. /\ r.taps \in Seq([guid : STRING, readable : BOOLEAN, tap : BOOLEAN])
      /\ r.panel \in Seq([name : STRING, guid : STRING, readable : BOOLEAN])
  BY LibraryAssumption
<1>2. PICK m \in Nat, n \in Nat : DOMAIN r.taps = 1 .. m /\ DOMAIN r.panel = 1 .. n
  BY <1>1
<1>3. seen \subseteq (1 .. m) \X (1 .. n)
  <2>1. ASSUME NEW p \in seen PROVE p \in (1 .. m) \X (1 .. n)
    <3>1. PICK i \in get_tap_reg(r) : \E j \in Links(r, i) : p = <<i, j>>
      BY DEF Seen
    <3>2. PICK j \in Links(r, i) : p = <<i, j>>
      BY <3>1
    <3>3. i \in 1 .. m /\ j \in 1 .. n
      BY <1>2 DEF get_tap_reg, get_panel_reg, Links
    <3> QED
      BY <3>2, <3>3
  <2> QED
    BY <2>1
<1>4. \A p \in seen : \E j \in DOMAIN r.panel :
         Chosen(p).name = r.panel[j].name /\ Chosen(p).guid = r.panel[j].guid
  <2>1. ASSUME NEW p \in seen PROVE p[2] \in DOMAIN r.panel
    <3> HIDE DEF seen
    <3> QED
      BY <1>2, <1>3
  <2> QED
    BY <2>1
<1>5. a = IF valid # {} /\ \E p \in named : named = {p}
            THEN Chosen(CHOOSE p \in named : TRUE)
          ELSE IF fallback /\ named = {} /\ (\E i \in valid : valid = {i}) /\ seen # {}
            THEN Chosen(LastOf(seen))
          ELSE Nothing
  BY DEF tapcfg_fixup_adapters
<1> SUFFICES \/ a = Nothing
             \/ \E j \in DOMAIN r.panel : a.name = r.panel[j].name /\ a.guid = r.panel[j].guid
  OBVIOUS
<1> HIDE DEF a, seen, valid, Chosen
<1>6. CASE valid # {} /\ \E p \in named : named = {p}
  <2>1. PICK q : q = CHOOSE p \in named : TRUE
    OBVIOUS
  <2>2. q \in seen
    BY <1>6, <2>1
  <2>3. a = Chosen(q)
    BY <1>5, <1>6, <2>1
  <2> QED
    BY <1>4, <2>2, <2>3
<1>7. CASE seen # {} /\ a = Chosen(LastOf(seen))
  <2>1. LastOf(seen) \in seen
    BY <1>3, <1>7, LastIsSeen
  <2> QED
    BY <1>4, <1>7, <2>1
<1>8. \/ valid # {} /\ \E p \in named : named = {p}
      \/ seen # {} /\ a = Chosen(LastOf(seen))
      \/ a = Nothing
  BY <1>5
<1> QED
  BY <1>6, <1>7, <1>8

-----------------------------------------------------------------------------
(* The handle. *)

Lib == HandleTypes /\ BeliefInv /\ ReadInv

LEMMA LibInit == ASSUME Init PROVE Lib
<1>1. HandleTypes
  <2>1. inbuf \in Seq(Frames) /\ Len(inbuf) <= 1 /\ taken \in Seq(Frames)
    BY DEF Init
  <2>2. ifname \in STRING /\ status \in Flags
    BY LibraryAssumption DEF Init
  <2>3. /\ registry \in Registries /\ alive \in BOOLEAN /\ started \in BOOLEAN
        /\ dev_handle \in BOOLEAN /\ reading \in BOOLEAN /\ again \in BOOLEAN
    BY DEF Init
  <2> QED
    BY <2>1, <2>2, <2>3 DEF HandleTypes
<1>2. BeliefInv
  BY DEF Init, TapInit, BeliefInv
<1>3. ReadInv
  BY DEF Init, TapInit, ReadInv, NoRead, Waiting
<1> QED
  BY <1>1, <1>2, <1>3 DEF Lib

LEMMA BeliefStays ==
    ASSUME BeliefInv, UNCHANGED <<registry, started, dev_handle, ifname, status, again, always>>,
           started => opener' = "lib" /\ media' = media,
           opener' = "none" /\ ~always => media' = 0
    PROVE  BeliefInv'
BY DEF BeliefInv

LEMMA ReadStays ==
    ASSUME ReadInv, UNCHANGED <<reading, inbuf, irp>>,
           Waiting => opener' = opener /\ packets' = packets, started' => started
    PROVE  ReadInv'
<1>1. Waiting' = Waiting
  BY DEF Waiting
<1> QED
  BY <1>1 DEF ReadInv

LEMMA ReadCompletes ==
    ASSUME ReadInv, Waiting, UNCHANGED <<reading, inbuf>>,
           NEW state \in {"done", "cancelled"}, NEW n, state = "done" => n \in Frames,
           Completed(state, n)
    PROVE  ReadInv'
<1>1. CASE irp.state = "pending"
  <2>1. irp' = [state |-> state, n |-> n]
    BY <1>1 DEF Completed
  <2>2. irp'.state = state /\ irp'.n = n
    BY <2>1
  <2> QED
    BY <1>1, <2>2 DEF ReadInv, Waiting
<1>2. CASE irp.state = "orphan"
  <2>1. irp'.state = "none"
    BY <1>2 DEF Completed, NoRead
  <2> QED
    BY <1>2, <2>1 DEF ReadInv, Waiting
<1> QED
  BY <1>1, <1>2 DEF Waiting

\* The network stack and the other program leave the handle alone.
LEMMA WorldLib == ASSUME Driver, Lib, World PROVE Lib'
<1>1. UNCHANGED <<handleVars, reading, inbuf, taken>>
  BY DEF World
<1>2. HandleTypes'
  BY <1>1 DEF Lib, HandleTypes, handleVars
<1>3. BeliefInv /\ ReadInv
  BY DEF Lib
<1> SUFFICES BeliefInv' /\ ReadInv'
  BY <1>2 DEF Lib
<1>4. ASSUME NEW p \in Packets, AdapterTransmit(p) PROVE BeliefInv' /\ ReadInv'
  <2>1. BeliefInv'
    BY <1>1, <1>3, <1>4, BeliefStays DEF AdapterTransmit, BeliefInv, handleVars
  <2>2. CASE UNCHANGED <<irp, packets>>
    BY <1>1, <1>3, <1>4, <2>1, <2>2, ReadStays DEF AdapterTransmit, handleVars
  <2>3. CASE TransmitQueue(p) /\ Waiting
    <3>1. PICK n : n = count'
      OBVIOUS
    <3>2. n \in Frames
      BY <2>3, <3>1, MasqAssumption DEF TransmitQueue, Driver, PortTypes, Frames
    <3>3. Completed("done", n)
      BY <2>3, <3>1 DEF TransmitQueue
    <3> QED
      BY <1>1, <1>3, <2>1, <2>3, <3>2, <3>3, ReadCompletes
  <2>4. CASE TransmitQueue(p) /\ ~Waiting
    BY <1>1, <1>3, <2>1, <2>4, ReadStays DEF TransmitQueue, handleVars
  <2>5. UNCHANGED <<irp, packets>> \/ TransmitQueue(p)
    BY <1>4 DEF AdapterTransmit, TransmitServerArp, TransmitServerDhcp, TransmitTunArp,
       HandleIPv6NeighborDiscovery, TransmitDrop
  <2> QED
    BY <2>1, <2>2, <2>3, <2>4, <2>5
<1>5. CASE InjectPacketDpc
  <2>1. BeliefInv'
    BY <1>1, <1>3, <1>5, BeliefStays DEF InjectPacketDpc, BeliefInv, handleVars
  <2> QED
    BY <1>1, <1>3, <1>5, <2>1, ReadStays DEF InjectPacketDpc, handleVars
<1>6. CASE Cancel
  <2>1. BeliefInv'
    BY <1>1, <1>3, <1>6, BeliefStays DEF Cancel, BeliefInv, handleVars
  <2>2. Waiting /\ Completed("cancelled", 0)
    BY <1>6 DEF Cancel
  <2> QED
    BY <1>1, <1>3, <2>1, <2>2, ReadCompletes
<1>7. CASE OtherOpens
  <2>1. opener = "none" /\ opener' = "other" /\ UNCHANGED <<always, media, packets, irp>>
    BY <1>7 DEF OtherOpens, Create
  <2>2. BeliefInv'
    BY <1>1, <1>3, <2>1, BeliefStays DEF BeliefInv, handleVars
  <2>3. ~Waiting
    BY <1>3, <2>1 DEF ReadInv
  <2> QED
    BY <1>1, <1>3, <2>1, <2>2, <2>3, ReadStays DEF handleVars
<1>8. CASE OtherCloses
  <2>1. opener = "other" /\ opener' = "none" /\ UNCHANGED <<always, irp>> /\ media' = MediaAfter(0)
    BY <1>8 DEF OtherCloses, Close
  <2>2. ~always => media' = 0
    BY <2>1 DEF MediaAfter
  <2>3. BeliefInv'
    BY <1>1, <1>3, <2>1, <2>2, BeliefStays DEF BeliefInv, handleVars
  <2>4. ~Waiting
    BY <1>3, <2>1 DEF ReadInv
  <2> QED
    BY <1>1, <1>3, <2>1, <2>3, <2>4, ReadStays DEF handleVars
<1>9. CASE OtherConfigures
  <2>1. opener = "other" /\ Configures
    BY <1>9 DEF OtherConfigures, SetMediaStatus, ConfigTun, ConfigPointToPoint, ConfigDhcpMasq
  <2>2. BeliefInv'
    BY <1>1, <1>3, <2>1, BeliefStays DEF BeliefInv, Configures, handleVars
  <2> QED
    BY <1>1, <1>3, <2>1, <2>2, ReadStays DEF Configures, handleVars
<1>10. CASE OtherWrites
  <2>1. opener = "other" /\ UNCHANGED <<opener, always, media, packets, irp>>
    BY <1>10 DEF OtherWrites, Write
  <2>2. BeliefInv'
    BY <1>1, <1>3, <2>1, BeliefStays DEF BeliefInv, handleVars
  <2> QED
    BY <1>1, <1>3, <2>1, <2>2, ReadStays DEF handleVars
<1> QED
  BY <1>4, <1>5, <1>6, <1>7, <1>8, <1>9, <1>10 DEF World

\* A call of the driver that is only a write or an ioctl.
LEMMA IoctlLib ==
    ASSUME Lib, started, UNCHANGED <<registry, alive, started, dev_handle, ifname, again>>,
           UNCHANGED <<opener, always, packets, irp, reading, inbuf, taken>>, status' \in Flags,
           \/ UNCHANGED <<media, status>>
           \/ media' = MediaAfter(status')
    PROVE  Lib'
<1>1. HandleTypes'
  BY DEF Lib, HandleTypes
<1>2. ~always => media' = status' % 256
  BY DEF Lib, BeliefInv, MediaAfter
<1>3. BeliefInv'
  BY <1>2 DEF Lib, BeliefInv
<1>4. ReadInv'
  BY ReadStays DEF Lib
<1> QED
  BY <1>1, <1>3, <1>4 DEF Lib

\* What closing the device leaves of the driver and of what is believed of it.
LEMMA CloseBelief ==
    ASSUME BeliefInv, Close, started' = FALSE, dev_handle' = FALSE, status' = 0
    PROVE  BeliefInv'
<1>1. always' = always /\ (~always => media' = 0)
  BY DEF Close, MediaAfter
<1> QED
  BY <1>1 DEF BeliefInv

LEMMA LateCloseStep == ASSUME Driver, Lib, LateClose PROVE Driver' /\ Lib'
<1>1. Close /\ ~Waiting /\ ~started
  BY DEF LateClose, CloseDue, Lib, BeliefInv
<1>2. UNCHANGED <<irp, handleVars, reading, inbuf, taken>>
  BY DEF LateClose
<1>3. irp' \in Read
  BY <1>2 DEF Driver, PortTypes
<1>4. HandleTypes'
  BY <1>2 DEF Lib, HandleTypes, handleVars
<1>5. BeliefInv'
  BY <1>1, <1>2, CloseBelief DEF Lib, BeliefInv, HandleTypes, handleVars
<1>6. ReadInv'
  BY <1>1, <1>2, ReadStays DEF Lib, handleVars
<1> QED
  BY <1>1, <1>3, <1>4, <1>5, <1>6, CloseDriver DEF Lib

\* The body of stop: the handle is stopped, and the device closed unless a read
\* waits.
LEMMA StopParts ==
    ASSUME Driver, Lib, StopHandle, irp' \in Read
    PROVE  /\ Driver' /\ BeliefInv' /\ started' = FALSE /\ dev_handle' = FALSE /\ status' = 0
           /\ again' \in BOOLEAN
           /\ Waiting => opener' = opener /\ packets' = packets
<1>1. CASE started /\ ~Waiting
  <2>1. Close /\ started' = FALSE /\ dev_handle' = FALSE /\ status' = 0 /\ again' = FALSE
    BY <1>1 DEF StopHandle, CloseHandle
  <2>2. Driver' /\ BeliefInv'
    BY <2>1, CloseDriver, CloseBelief DEF Lib
  <2> QED
    BY <1>1, <2>1, <2>2
<1>2. CASE ~started \/ Waiting
  <2>1. /\ UNCHANGED <<opener, always, media, tun, dhcp, packets, injects, count, log>>
        /\ heard' = Silence
    BY <1>2 DEF StopHandle, CloseHandle
  <2>2. started' = FALSE /\ dev_handle' = FALSE /\ status' = 0 /\ again' \in BOOLEAN
    BY <1>2 DEF StopHandle, Lib, BeliefInv, HandleTypes
  <2>3. Driver'
    BY <2>1, QuietDriver
  <2>4. BeliefInv'
    BY <2>1, <2>2 DEF Lib, BeliefInv
  <2> QED
    BY <2>1, <2>2, <2>3, <2>4
<1> QED
  BY <1>1, <1>2

LEMMA StopStep == ASSUME Driver, Lib, tapcfg_stop PROVE Driver' /\ Lib'
<1>1. StopHandle /\ UNCHANGED <<irp, registry, alive, ifname, reading, inbuf, taken>>
  BY DEF tapcfg_stop
<1>2. irp' \in Read
  BY <1>1 DEF Driver, PortTypes
<1>3. /\ Driver' /\ BeliefInv' /\ started' = FALSE /\ dev_handle' = FALSE /\ status' = 0
      /\ again' \in BOOLEAN
      /\ Waiting => opener' = opener /\ packets' = packets
  BY <1>1, <1>2, StopParts
<1>4. HandleTypes'
  BY <1>1, <1>3, LibraryAssumption DEF Lib, HandleTypes
<1>5. ReadInv'
  BY <1>1, <1>3, ReadStays DEF Lib
<1> QED
  BY <1>3, <1>4, <1>5 DEF Lib

LEMMA DestroyStep == ASSUME Driver, Lib, tapcfg_destroy PROVE Driver' /\ Lib'
<1>1. /\ StopHandle /\ alive' = FALSE /\ ifname' = NoName /\ reading' = FALSE /\ inbuf' = <<>>
      /\ UNCHANGED <<registry, taken>>
      /\ irp' = IF Waiting THEN [irp EXCEPT !.state = "orphan"] ELSE NoRead
  BY DEF tapcfg_destroy
<1>2. irp' \in Read /\ irp'.state = IF Waiting THEN "orphan" ELSE "none"
  <2>1. irp \in Read
    BY DEF Driver, PortTypes
  <2>2. [irp EXCEPT !.state = "orphan"] \in Read /\ [irp EXCEPT !.state = "orphan"].state = "orphan"
    BY <2>1 DEF Read
  <2>3. NoRead \in Read /\ NoRead.state = "none"
    BY DEF NoRead, Read
  <2> QED
    BY <1>1, <2>2, <2>3
<1>3. /\ Driver' /\ BeliefInv' /\ started' = FALSE /\ dev_handle' = FALSE /\ status' = 0
      /\ again' \in BOOLEAN
      /\ Waiting => opener' = opener /\ packets' = packets
  BY <1>1, <1>2, StopParts
<1>4. HandleTypes'
  <2>1. inbuf' \in Seq(Frames) /\ Len(inbuf') <= 1
    BY <1>1
  <2> QED
    BY <1>1, <1>3, <2>1, LibraryAssumption DEF Lib, HandleTypes
<1>5. ReadInv'
  BY <1>1, <1>2, <1>3 DEF Lib, ReadInv, Waiting
<1> QED
  BY <1>3, <1>4, <1>5 DEF Lib

LEMMA InitStep == ASSUME Driver, Lib, tapcfg_init PROVE Driver' /\ Lib'
<1>1. /\ UNCHANGED <<opener, always, media, tun, dhcp, packets, injects, irp, count, log,
                     registry, started, dev_handle, ifname, status, reading, inbuf, again, taken>>
      /\ alive' = TRUE /\ heard' = Silence
  BY DEF tapcfg_init
<1>2. Driver'
  <2>1. irp' \in Read
    BY <1>1 DEF Driver, PortTypes
  <2> QED
    BY <1>1, <2>1, QuietDriver
<1>3. HandleTypes' /\ BeliefInv'
  BY <1>1 DEF Lib, HandleTypes, BeliefInv
<1>4. ReadInv'
  BY <1>1, ReadStays DEF Lib
<1> QED
  BY <1>2, <1>3, <1>4 DEF Lib

LEMMA StartStep ==
    ASSUME Driver, Lib, NEW name, NEW fallback, tapcfg_start(name, fallback)
    PROVE  Driver' /\ Lib'
<1>1. PICK a : a = tapcfg_fixup_adapters(registry, name, fallback)
  OBVIOUS
<1>2. /\ ifname' = a.name /\ UNCHANGED <<registry, alive, reading, inbuf, taken>>
      /\ (Opens(a) /\ Started) \/ NotStarted
  BY <1>1 DEF tapcfg_start
<1>3. PICK r \in Registries : r = registry
  BY DEF Lib, HandleTypes
<1>4. \/ a = Nothing
      \/ \E j \in DOMAIN r.panel : a.name = r.panel[j].name /\ a.guid = r.panel[j].guid
  BY <1>1, <1>3, ChosenAdapter
<1>5. ifname' \in STRING
  <2>1. r.panel \in Seq([name : STRING, guid : STRING, readable : BOOLEAN])
    BY LibraryAssumption
  <2>2. \A j \in DOMAIN r.panel : r.panel[j].name \in STRING
    <3> DEFINE S == [name : STRING, guid : STRING, readable : BOOLEAN]
    <3>1. PICK panel : panel = r.panel
      OBVIOUS
    <3>2. \A e \in S : e.name \in STRING
      OBVIOUS
    <3>3. panel \in Seq(S)
      BY <2>1, <3>1
    <3> HIDE DEF S
    <3>4. \A j \in DOMAIN panel : panel[j] \in S
      BY <3>3
    <3> QED
      BY <3>1, <3>2, <3>4
  <2>3. a = Nothing => a.name = NoName
    BY DEF Nothing
  <2> QED
    BY <1>2, <1>4, <2>2, <2>3, LibraryAssumption
<1>6. irp' \in Read /\ irp' = irp
  BY <1>2 DEF Started, NotStarted, Driver, PortTypes
<1>7. CASE Opens(a) /\ Started
  <2>1. /\ started' = TRUE /\ dev_handle' = TRUE /\ status' = 0 /\ again' = again
        /\ Create("lib") /\ a.guid = Guid /\ opener = "none"
    BY <1>7 DEF Opens, Started
  <2>2. Driver'
    BY <1>6, <2>1, CreateDriver
  <2>3. HandleTypes'
    BY <1>2, <1>5, <2>1, LibraryAssumption DEF Lib, HandleTypes
  <2>4. a # Nothing
    BY <2>1, LibraryAssumption DEF Nothing
  <2>5. BeliefInv'
    BY <1>2, <1>3, <1>4, <2>1, <2>4 DEF Lib, BeliefInv, Create
  <2>6. ReadInv'
    BY <1>2, <1>6, <2>1 DEF Lib, ReadInv, Waiting
  <2> QED
    BY <2>2, <2>3, <2>5, <2>6 DEF Lib
<1>8. CASE NotStarted
  <2>1. Driver'
    BY <1>6, <1>8, QuietDriver DEF NotStarted
  <2>2. HandleTypes'
    BY <1>2, <1>5, <1>8 DEF Lib, HandleTypes, NotStarted
  <2>3. BeliefInv'
    BY <1>2, <1>8 DEF Lib, BeliefInv, NotStarted
  <2>4. ReadInv'
    BY <1>2, <1>8, ReadStays DEF Lib, NotStarted
  <2> QED
    BY <2>1, <2>2, <2>3, <2>4 DEF Lib
<1> QED
  BY <1>2, <1>7, <1>8

LEMMA WaitStep == ASSUME Driver, Lib, tapcfg_wait_for_data PROVE Driver' /\ Lib'
<1>1. /\ alive /\ started /\ inbuf = <<>> /\ heard' = Silence
      /\ UNCHANGED <<opener, always, media, tun, dhcp, injects, count, log, handleVars, taken>>
  BY DEF tapcfg_wait_for_data
<1>2. opener = "lib" /\ irp.state # "orphan" /\ (Waiting => packets = <<>>)
  BY <1>1 DEF Lib, BeliefInv, ReadInv
<1>3. BeliefInv'
  BY <1>1 DEF Lib, BeliefInv, handleVars
<1>4. NoRead \in Read /\ NoRead.state = "none"
  BY DEF NoRead, Read
<1>5. CASE Collect
  <2>1. PICK n : n = irp.n
    OBVIOUS
  <2>2. /\ irp' = NoRead /\ reading' = FALSE /\ packets' = packets
        /\ inbuf' = IF irp.state = "done" THEN <<n>> ELSE <<>>
    BY <1>5, <2>1 DEF Collect
  <2>3. inbuf' \in Seq(Frames) /\ Len(inbuf') <= 1
    <3>1. irp.state = "done" => n \in Frames
      BY <2>1 DEF Lib, ReadInv
    <3> QED
      BY <2>2, <3>1
  <2>4. Driver'
    BY <1>1, <1>4, <2>2, QuietDriver
  <2>5. HandleTypes'
    BY <1>1, <2>2, <2>3 DEF Lib, HandleTypes, handleVars
  <2>6. ReadInv'
    BY <1>4, <2>2 DEF ReadInv, Waiting
  <2> QED
    BY <1>3, <2>4, <2>5, <2>6 DEF Lib
<1>6. CASE ~reading /\ ReadPops /\ inbuf' = <<Head(packets)>> /\ UNCHANGED <<irp, reading>>
  <2>1. packets # <<>> /\ packets' = Tail(packets) /\ ~Waiting
    BY <1>6 DEF ReadPops
  <2>2. Head(packets) \in Frames
    BY <2>1 DEF Driver, PortTypes
  <2>3. inbuf' \in Seq(Frames) /\ Len(inbuf') <= 1
    BY <1>6, <2>2
  <2>4. Driver'
    <3>1. irp' \in Read
      BY <1>6 DEF Driver, PortTypes
    <3> QED
      BY <1>1, <2>1, <3>1, QuietDriver
  <2>5. HandleTypes'
    BY <1>1, <1>6, <2>3 DEF Lib, HandleTypes, handleVars
  <2>6. ReadInv'
    BY <1>2, <1>6, <2>1 DEF Lib, ReadInv, Waiting
  <2> QED
    BY <1>3, <2>4, <2>5, <2>6 DEF Lib
<1>7. CASE ~reading /\ ReadPends /\ reading' = TRUE /\ UNCHANGED <<packets, inbuf>>
  <2>1. irp' = [state |-> "pending", n |-> 0] /\ packets = <<>>
    BY <1>7 DEF ReadPends
  <2>2. irp' \in Read /\ irp'.state = "pending"
    BY <2>1 DEF Read
  <2>3. Driver'
    BY <1>1, <1>7, <2>2, QuietDriver
  <2>4. HandleTypes'
    BY <1>1, <1>7 DEF Lib, HandleTypes, handleVars
  <2>5. ReadInv'
    BY <1>1, <1>2, <1>7, <2>1, <2>2 DEF ReadInv, Waiting
  <2> QED
    BY <1>3, <2>3, <2>4, <2>5 DEF Lib
<1>8. CASE UNCHANGED <<irp, packets, reading, inbuf>>
  <2>1. irp' \in Read
    BY <1>8 DEF Driver, PortTypes
  <2>2. Driver'
    BY <1>1, <1>8, <2>1, QuietDriver
  <2>3. HandleTypes'
    BY <1>1, <1>8 DEF Lib, HandleTypes, handleVars
  <2>4. ReadInv'
    BY <1>1, <1>8, ReadStays DEF Lib, handleVars
  <2> QED
    BY <1>3, <2>2, <2>3, <2>4 DEF Lib
<1> QED
  BY <1>5, <1>6, <1>7, <1>8 DEF tapcfg_wait_for_data, ReadFile

LEMMA ReadStep == ASSUME Driver, Lib, tapcfg_read PROVE Driver' /\ Lib'
<1>1. /\ inbuf # <<>> /\ inbuf' = <<>> /\ heard' = Silence
      /\ taken' = Append(taken, inbuf[1])
      /\ UNCHANGED <<opener, always, media, tun, dhcp, packets, injects, irp, count, log,
                     handleVars, reading>>
  BY DEF tapcfg_read
<1>2. PICK n : n = inbuf[1]
  OBVIOUS
<1>3. n \in Frames
  BY <1>1, <1>2 DEF Lib, HandleTypes
<1>4. taken' \in Seq(Frames) /\ inbuf' \in Seq(Frames) /\ Len(inbuf') <= 1
  BY <1>1, <1>2, <1>3 DEF Lib, HandleTypes
<1>5. Driver'
  <2>1. irp' \in Read
    BY <1>1 DEF Driver, PortTypes
  <2> QED
    BY <1>1, <2>1, QuietDriver
<1>6. HandleTypes'
  BY <1>1, <1>4 DEF Lib, HandleTypes, handleVars
<1>7. BeliefInv'
  BY <1>1 DEF Lib, BeliefInv, handleVars
<1>8. ReadInv'
  BY <1>1 DEF Lib, ReadInv, Waiting, handleVars
<1> QED
  BY <1>5, <1>6, <1>7, <1>8 DEF Lib

LEMMA WriteStep ==
    ASSUME Driver, Lib, NEW short \in BOOLEAN, tapcfg_write(short) PROVE Driver' /\ Lib'
<1>1. started /\ Write(4, short) /\ UNCHANGED <<handleVars, reading, inbuf, taken>>
  BY DEF tapcfg_write
<1>2. Driver'
  BY <1>1, WriteDriver
<1>3. /\ UNCHANGED <<registry, alive, started, dev_handle, ifname, again, media, status>>
      /\ UNCHANGED <<opener, always, packets, irp, reading, inbuf, taken>> /\ status' \in Flags
  BY <1>1 DEF Write, handleVars, Lib, HandleTypes
<1>4. Lib'
  BY <1>1, <1>3, IoctlLib
<1> QED
  BY <1>2, <1>4

LEMMA StatusStep ==
    ASSUME Driver, Lib, NEW flags \in Flags, tapcfg_iface_set_status(flags)
    PROVE  Driver' /\ Lib'
<1>1. /\ started /\ SetMediaStatus(flags) /\ status' = flags
      /\ UNCHANGED <<registry, alive, started, dev_handle, ifname, again, reading, inbuf, taken>>
  BY DEF tapcfg_iface_set_status
<1>2. flags \in Nat
  BY LibraryAssumption
<1>3. Driver'
  BY <1>1, <1>2, ConfigDriver
<1>4. UNCHANGED <<opener, always, packets, irp>> /\ media' = MediaAfter(status')
  BY <1>1 DEF SetMediaStatus, Configures, MediaAfter
<1>5. Lib'
  BY <1>1, <1>4, IoctlLib
<1> QED
  BY <1>3, <1>5

LEMMA Ipv4Step ==
    ASSUME Driver, Lib, NEW addr \in Addrs, NEW netbits, tapcfg_iface_set_ipv4(addr, netbits)
    PROVE  Driver' /\ Lib'
<1>1. PICK server : server = ServerOf(addr, netbits)
  OBVIOUS
<1>2. /\ started /\ netbits \in 1 .. AddrBits /\ ConfigDhcpMasq(addr, server)
      /\ UNCHANGED <<handleVars, reading, inbuf, taken>>
  BY <1>1 DEF tapcfg_iface_set_ipv4
<1>3. server \in Addrs
  <2>1. PICK size \in Nat \ {0} : size = 2 ^ (AddrBits - netbits)
    <3>1. AddrBits - netbits \in 0 .. AddrBits
      BY <1>2, MasqAssumption
    <3> QED
      BY <3>1, MasqAssumption
  <2>2. addr \in Nat
    BY AddrsFacts
  <2>3. PICK x \in Int : x = (addr - (addr % size)) + size - 2
    BY <2>1, <2>2
  <2>4. server = x % 2 ^ AddrBits
    BY <1>1, <2>1, <2>3 DEF ServerOf, Masked
  <2> QED
    BY <2>3, <2>4, AddrsFacts
<1>4. Driver'
  BY <1>2, <1>3, ConfigDriver
<1>5. /\ UNCHANGED <<registry, alive, started, dev_handle, ifname, again, media, status>>
      /\ UNCHANGED <<opener, always, packets, irp, reading, inbuf, taken>> /\ status' \in Flags
  BY <1>2 DEF ConfigDhcpMasq, Configures, handleVars, Lib, HandleTypes
<1>6. Lib'
  BY <1>2, <1>5, IoctlLib
<1> QED
  BY <1>4, <1>6

LEMMA OptionsStep ==
    ASSUME Driver, Lib, NEW size \in OptionSizes, tapcfg_iface_set_dhcp_options(size)
    PROVE  Driver' /\ Lib'
<1>1. started /\ ConfigDhcpSetOpt(size) /\ UNCHANGED <<handleVars, reading, inbuf, taken>>
  BY DEF tapcfg_iface_set_dhcp_options
<1>2. Driver'
  BY <1>1, ConfigDriver
<1>3. /\ UNCHANGED <<registry, alive, started, dev_handle, ifname, again, media, status>>
      /\ UNCHANGED <<opener, always, packets, irp, reading, inbuf, taken>> /\ status' \in Flags
  BY <1>1 DEF ConfigDhcpSetOpt, Configures, handleVars, Lib, HandleTypes
<1>4. Lib'
  BY <1>1, <1>3, IoctlLib
<1> QED
  BY <1>2, <1>4

\* The steps of the network stack and of the other program, for the driver.
LEMMA WorldDriver == ASSUME Driver, World PROVE Driver'
<1>1. ASSUME NEW p \in Packets, AdapterTransmit(p) PROVE Driver'
  BY <1>1, TransmitDriver
<1>2. CASE InjectPacketDpc
  BY <1>2, InjectDriver
<1>3. CASE Cancel
  <2>1. irp' \in Read
    <3>1. NoRead \in Read /\ [state |-> "cancelled", n |-> 0] \in Read
      BY DEF NoRead, Read
    <3> QED
      BY <1>3, <3>1 DEF Cancel, Completed
  <2> QED
    BY <1>3, <2>1, QuietDriver DEF Cancel
<1>4. CASE OtherOpens
  BY <1>4, CreateDriver DEF OtherOpens
<1>5. CASE OtherCloses
  <2>1. Close /\ irp' = irp
    BY <1>5 DEF OtherCloses
  <2>2. irp' \in Read
    BY <2>1 DEF Driver, PortTypes
  <2> QED
    BY <2>1, <2>2, CloseDriver
<1>6. CASE OtherConfigures
  <2>1. \A s \in Servers : s.addr \in Addrs /\ s.server \in Addrs
    BY MasqAssumption
  <2> QED
    BY <1>6, <2>1, ConfigDriver DEF OtherConfigures
<1>7. CASE OtherWrites
  BY <1>7, WriteDriver DEF OtherWrites
<1> QED
  BY <1>1, <1>2, <1>3, <1>4, <1>5, <1>6, <1>7 DEF World

-----------------------------------------------------------------------------
(* The theorems. *)

IInv == Driver /\ Lib

LEMMA StepKeeps == ASSUME IInv, [Next]_vars PROVE IInv'
<1>1. CASE UNCHANGED vars
  <2>1. UNCHANGED <<tapVars, handleVars, reading, inbuf, taken>>
    BY <1>1 DEF vars
  <2>2. Driver'
    BY <2>1, ModesStay DEF IInv, Driver, MasqInv, PortTypes, ReplyTypes, QueuedInv, HeardInv, tapVars
  <2>3. HandleTypes' /\ BeliefInv'
    BY <2>1 DEF IInv, Lib, HandleTypes, BeliefInv, tapVars, handleVars
  <2>4. ReadInv'
    BY <2>1, ReadStays DEF IInv, Lib, tapVars, handleVars
  <2> QED
    BY <2>2, <2>3, <2>4 DEF IInv, Lib
<1>2. CASE Calls
  <2>1. ASSUME NEW i \in Ipv4s, tapcfg_iface_set_ipv4(i.addr, i.netbits) PROVE IInv'
    BY <2>1, Ipv4Step, LibraryAssumption DEF IInv
  <2> QED
    BY <1>2, <2>1, InitStep, DestroyStep, StopStep, StartStep, WaitStep, ReadStep, WriteStep,
       StatusStep, OptionsStep DEF Calls, IInv
<1>3. CASE LateClose
  BY <1>3, LateCloseStep DEF IInv
<1>4. CASE World
  BY <1>4, WorldDriver, WorldLib DEF IInv
<1> QED
  BY <1>1, <1>2, <1>3, <1>4 DEF Next

\* What every later theorem rests on: the modes of the driver justify every
\* reply that waits (MasqInv), the library believes no more of its device than
\* is so (BeliefInv), and a read that waits keeps the device open (ReadInv).
THEOREM LibraryInductive == Spec => []IInv
<1>1. Init => IInv
  BY DriverInit, LibInit DEF Init, IInv
<1>2. IInv /\ [Next]_vars => IInv'
  BY StepKeeps
<1> QED
  BY <1>1, <1>2, PTL DEF Spec

\* The driver's state (tapdrvr.c, dhcp.c) and the fields of tapcfg_t keep their
\* ranges; no queue outgrows its capacity, and at most one fetched frame is kept.
THEOREM TypesCorrect == Spec => []TypeOK
<1>1. IInv => TypeOK
  BY DEF IInv, Driver, Lib, PortTypes, ModeTypes, ReplyTypes, HandleTypes, Heards, Logs, Frames,
     TypeOK, TapTypeOK
<1> QED
  BY <1>1, LibraryInductive, PTL

\* Replies name a hardware address, give only addresses configured since the
\* device was opened, acknowledge after a DHCPDISCOVER of the same opening and
\* at most so many requests for another address; nothing waits for the network
\* stack once the device is closed.
THEOREM RepliesAreSound == Spec => []RepliesSound
<1>1. IInv => RepliesSound
  <2> SUFFICES ASSUME IInv PROVE RepliesSound
    OBVIOUS
  <2>1. \A i \in 1 .. Len(injects) : Sound(injects[i], log)
    BY DEF IInv, Driver, MasqInv, QueuedInv
  <2>2. \A i \in 1 .. Len(injects) :
          /\ injects[i].mac # ZeroMAC
          /\ injects[i].kind = "dhcp" /\ injects[i].type # DHCPNAK
                => injects[i].yiaddr \in log.addrs
          /\ injects[i].kind = "dhcp" /\ injects[i].type = DHCPACK => log.discovers
    BY <2>1 DEF Sound
  <2>3. /\ opener = "none" => injects = <<>>
        /\ log.acks <= BAD_DHCPREQUEST_NAK_THRESHOLD
        /\ heard.kind = "tunnelled" => heard.mac # ZeroMAC
    BY DEF IInv, Driver, MasqInv, ModeInv, QueuedInv, HeardInv
  <2> QED
    BY <2>2, <2>3 DEF RepliesSound
<1> QED
  BY <1>1, LibraryInductive, PTL

\* A started handle is the one the driver has open, remembers the media state
\* it set, and has the name of the adapter unless it was started again.
THEOREM HandleIsCoherent == Spec => []HandleCoherent
<1>1. IInv => HandleCoherent
  BY DEF IInv, Lib, BeliefInv, HandleCoherent
<1> QED
  BY <1>1, LibraryInductive, PTL

\* A handle that waits for a read has one that the driver or the I/O manager
\* will answer.
THEOREM ReadIsOutstanding == Spec => []ReadOutstanding
<1>1. IInv => ReadOutstanding
  BY DEF IInv, Lib, ReadInv, ReadOutstanding
<1> QED
  BY <1>1, LibraryInductive, PTL

-----------------------------------------------------------------------------
(* The library implements TapDevice. *)

Held == IF opener = "lib" THEN Fetched \o packets ELSE Fetched

LEMMA FetchedIs ==
    ASSUME IInv
    PROVE  /\ Fetched \in Seq(Frames) /\ Len(Fetched) <= 1
           /\ irp.state = "done" => Fetched = <<irp.n>>
           /\ irp.state # "done" => Fetched = inbuf
           /\ packets \in Seq(Frames)
<1>1. PICK n : n = irp.n
  OBVIOUS
<1>2. inbuf \in Seq(Frames) /\ Len(inbuf) <= 1 /\ packets \in Seq(Frames)
  BY DEF IInv, Driver, PortTypes, Lib, HandleTypes
<1>3. irp.state = "done" => inbuf = <<>> /\ n \in Frames
  BY <1>1 DEF IInv, Lib, ReadInv
<1>4. irp.state = "done" => Fetched = <<n>>
  BY <1>1, <1>3 DEF Fetched
<1>5. irp.state # "done" => Fetched = inbuf
  BY <1>2 DEF Fetched
<1>6. Fetched \in Seq(Frames) /\ Len(Fetched) <= 1
  <2>1. CASE irp.state = "done"
    <3>1. n \in Frames
      BY <1>3, <2>1
    <3>2. <<n>> \in Seq(Frames) /\ Len(<<n>>) <= 1
      BY <3>1
    <3> QED
      BY <1>4, <2>1, <3>2
  <2>2. CASE irp.state # "done"
    BY <1>2, <1>5, <2>2
  <2> QED
    BY <2>1, <2>2
<1> QED
  BY <1>1, <1>2, <1>4, <1>5, <1>6

LEMMA OneAtMost ==
    ASSUME NEW f \in Seq(Frames), Len(f) <= 1, f # <<>> PROVE \E x \in Frames : f = <<x>>
<1>1. Len(f) = 1 /\ f[1] \in Frames
  <2>1. Len(f) \in Nat \ {0}
    BY EmptySeq
  <2>2. Len(f) = 1
    BY <2>1
  <2> QED
    BY <2>2
<1>2. PICK x \in Frames : x = f[1]
  BY <1>1
<1>3. <<x>> \in Seq(Frames) /\ Len(<<x>>) = 1 /\ <<x>>[1] = x
  OBVIOUS
<1>4. \A i \in 1 .. Len(f) : f[i] = <<x>>[i]
  BY <1>1, <1>2, <1>3
<1>5. f = <<x>>
  BY <1>1, <1>3, <1>4, SeqEqual
<1> QED
  BY <1>5

LEMMA OneFirst ==
    ASSUME NEW x \in Frames, NEW q \in Seq(Frames)
    PROVE  <<x>> \o q # <<>> /\ Head(<<x>> \o q) = x /\ Tail(<<x>> \o q) = q
<1> DEFINE s == <<x>> \o q
<1>1. <<x>> \in Seq(Frames) /\ Len(<<x>>) = 1 /\ <<x>>[1] = x
  OBVIOUS
<1>2. /\ s \in Seq(Frames) /\ Len(s) = 1 + Len(q) /\ Len(q) \in Nat
      /\ \A i \in 1 .. 1 + Len(q) : s[i] = IF i <= 1 THEN <<x>>[i] ELSE q[i - 1]
  BY <1>1, ConcatProperties
<1> HIDE DEF s
<1>3. s # <<>> /\ Head(s) = x
  BY <1>1, <1>2
<1>4. Tail(s) \in Seq(Frames) /\ Len(Tail(s)) = Len(q) /\ \A i \in 1 .. Len(q) : Tail(s)[i] = s[i + 1]
  BY <1>2, <1>3, HeadTailProperties
<1>5. \A i \in 1 .. Len(q) : Tail(s)[i] = q[i]
  BY <1>2, <1>4
<1>6. Tail(s) = q
  BY <1>4, <1>5, SeqEqual
<1> QED
  BY <1>3, <1>6 DEF s

\* What a program holds when its device is not open, or nothing is queued.
LEMMA HeldIs ==
    ASSUME IInv PROVE opener # "lib" \/ packets = <<>> => Held = Fetched
<1>1. PICK f : f = Fetched
  OBVIOUS
<1>2. f \in Seq(Frames)
  BY <1>1, FetchedIs
<1> QED
  BY <1>1, <1>2 DEF Held

LEMMA HeldStays ==
    ASSUME UNCHANGED <<opener, count, irp, inbuf, packets, taken>>
    PROVE  [D!DeviceNext]_(D!deviceVars)
<1>1. Fetched' = Fetched
  BY DEF Fetched
<1> QED
  BY <1>1 DEF D!deviceVars

\* A device that is closed keeps the frame that was fetched, or not even that.
LEMMA HeldCloses ==
    ASSUME IInv, IInv', opener = "lib", Close, UNCHANGED taken,
           (irp' = irp /\ inbuf' = inbuf) \/ (irp' = NoRead /\ inbuf' = <<>>)
    PROVE  [D!DeviceNext]_(D!deviceVars)
<1>1. PICK f, g, q : f = Fetched /\ g = Fetched' /\ q = packets
  OBVIOUS
<1>2. f \in Seq(Frames) /\ Len(f) <= 1 /\ q \in Seq(Frames)
  BY <1>1, FetchedIs
<1>3. g = f \/ g = <<>>
  <2>1. CASE irp' = irp /\ inbuf' = inbuf
    BY <1>1, <2>1 DEF Fetched
  <2>2. CASE irp' = NoRead /\ inbuf' = <<>>
    <3>1. irp'.state # "done"
      BY <2>2 DEF NoRead
    <3> QED
      BY <1>1, <2>2, <3>1 DEF Fetched
  <2> QED
    BY <2>1, <2>2
<1>4. opener' = "none" /\ count' = count /\ taken' = taken
  BY DEF Close
<1>5. \/ g = <<>>
      \/ f \o q # <<>> /\ g = <<Head(f \o q)>>
  <2>1. CASE f = <<>>
    BY <1>3, <2>1
  <2>2. CASE f # <<>> /\ g = f
    <3>1. PICK x \in Frames : f = <<x>>
      BY <1>2, <2>2, OneAtMost
    <3>2. <<x>> \o q # <<>> /\ Head(<<x>> \o q) = x
      BY <1>2, OneFirst
    <3> QED
      BY <2>2, <3>1, <3>2
  <2> QED
    BY <1>3, <2>1, <2>2
<1>6. D!Close
  BY <1>1, <1>4, <1>5 DEF D!Close
<1> QED
  BY <1>6 DEF D!DeviceNext

LEMMA HeldStart ==
    ASSUME IInv, NEW name, NEW fallback, tapcfg_start(name, fallback)
    PROVE  [D!DeviceNext]_(D!deviceVars)
<1>1. CASE NotStarted
  BY <1>1, HeldStays DEF tapcfg_start, NotStarted
<1>2. CASE opener = "none" /\ Started
  <2>1. /\ opener' = "lib" /\ packets = <<>> /\ UNCHANGED <<irp, packets, inbuf, count, taken>>
    BY <1>2 DEF tapcfg_start, Started, Create, IInv, Driver, MasqInv, QueuedInv
  <2>2. PICK f : f = Fetched
    OBVIOUS
  <2>3. Fetched' = f /\ f \in Seq(Frames)
    BY <2>1, <2>2, FetchedIs DEF Fetched
  <2>4. f \o <<>> = f
    BY <2>3
  <2>5. D!Open
    BY <1>2, <2>1, <2>2, <2>3, <2>4 DEF D!Open
  <2> QED
    BY <2>5 DEF D!DeviceNext
<1> QED
  BY <1>1, <1>2 DEF tapcfg_start, Opens

LEMMA HeldStop ==
    ASSUME IInv, IInv', ~CloseDue, tapcfg_stop \/ tapcfg_destroy
    PROVE  [D!DeviceNext]_(D!deviceVars)
<1>1. taken' = taken /\ StopHandle
  BY DEF tapcfg_stop, tapcfg_destroy
<1>2. \/ irp' = irp /\ inbuf' = inbuf
      \/ tapcfg_destroy /\ inbuf' = <<>>
         /\ irp' = IF Waiting THEN [irp EXCEPT !.state = "orphan"] ELSE NoRead
  BY DEF tapcfg_stop, tapcfg_destroy
<1>3. CASE started /\ ~Waiting
  <2>1. opener = "lib" /\ Close
    BY <1>1, <1>3 DEF StopHandle, CloseHandle, IInv, Lib, BeliefInv
  <2>2. (irp' = irp /\ inbuf' = inbuf) \/ (irp' = NoRead /\ inbuf' = <<>>)
    BY <1>2, <1>3
  <2> QED
    BY <1>1, <2>1, <2>2, HeldCloses
<1>4. CASE ~started \/ Waiting
  <2>1. UNCHANGED <<opener, packets, count>>
    BY <1>1, <1>4 DEF StopHandle, CloseHandle
  <2>2. CASE irp' = irp /\ inbuf' = inbuf
    BY <1>1, <2>1, <2>2, HeldStays
  <2>3. CASE tapcfg_destroy /\ Waiting /\ inbuf' = <<>> /\ irp' = [irp EXCEPT !.state = "orphan"]
    <3>1. irp.state # "done" /\ inbuf = <<>>
      BY <2>3 DEF IInv, Lib, ReadInv, Waiting
    <3>2. irp'.state # "done"
      BY <2>3 DEF IInv, Driver, PortTypes, Read
    <3>3. Fetched = <<>> /\ Fetched' = <<>>
      BY <2>3, <3>1, <3>2 DEF Fetched
    <3> QED
      BY <1>1, <2>1, <3>3 DEF D!deviceVars
  <2>4. CASE tapcfg_destroy /\ ~Waiting /\ inbuf' = <<>> /\ irp' = NoRead
    <3>1. opener # "lib"
      BY <1>4, <2>4 DEF CloseDue, IInv, Lib, BeliefInv
    <3>2. Fetched' = <<>>
      BY <2>4 DEF Fetched, NoRead
    <3>3. D!Forget
      BY <1>1, <2>1, <3>1, <3>2 DEF D!Forget
    <3> QED
      BY <3>3 DEF D!DeviceNext
  <2> QED
    BY <1>2, <2>2, <2>3, <2>4
<1> QED
  BY <1>3, <1>4

\* A read that is started, collected or answered at once only moves the frame.
LEMMA HeldWait ==
    ASSUME IInv, tapcfg_wait_for_data PROVE [D!DeviceNext]_(D!deviceVars)
<1>1. /\ started /\ inbuf = <<>> /\ UNCHANGED <<opener, count, taken>>
  BY DEF tapcfg_wait_for_data
<1>2. CASE Collect
  <2>1. packets' = packets /\ irp'.state # "done"
        /\ inbuf' = IF irp.state = "done" THEN <<irp.n>> ELSE <<>>
    BY <1>2 DEF Collect, NoRead
  <2>2. PICK n, f, g : n = irp.n /\ f = Fetched /\ g = Fetched'
    OBVIOUS
  <2>3. irp.state = "done" => f = <<n>> /\ g = <<n>>
    <3>1. irp.state = "done" => inbuf' = <<n>> /\ n \in Frames
      BY <2>1, <2>2 DEF IInv, Lib, ReadInv
    <3>2. irp.state = "done" => <<n>> \in Seq(Frames)
      BY <3>1
    <3> QED
      BY <1>1, <2>1, <2>2, <3>1, <3>2 DEF Fetched
  <2>4. irp.state # "done" => f = <<>> /\ g = <<>>
    BY <1>1, <2>1, <2>2 DEF Fetched
  <2>5. Fetched' = Fetched
    BY <2>2, <2>3, <2>4
  <2> QED
    BY <1>1, <2>1, <2>5 DEF D!deviceVars
<1>3. CASE ~reading /\ ReadPops /\ inbuf' = <<Head(packets)>> /\ irp' = irp
  <2>1. opener = "lib" /\ irp.state # "done" /\ packets # <<>> /\ packets' = Tail(packets)
    BY <1>1, <1>3 DEF IInv, Lib, BeliefInv, ReadInv, ReadPops
  <2>2. PICK q, h : q = packets /\ h = Head(packets)
    OBVIOUS
  <2>3. q \in Seq(Frames) /\ q # <<>> /\ h = Head(q)
    BY <2>1, <2>2, FetchedIs
  <2>4. Fetched = <<>> /\ Fetched' = <<h>>
    <3>1. h \in Frames
      BY <2>3
    <3>2. <<h>> \in Seq(Frames)
      BY <3>1
    <3> QED
      BY <1>1, <1>3, <2>1, <2>2, <3>2 DEF Fetched
  <2>5. <<>> \o q = <<h>> \o Tail(q)
    <3>1. h \in Frames /\ Tail(q) \in Seq(Frames) /\ Len(Tail(q)) = Len(q) - 1
          /\ \A i \in 1 .. Len(Tail(q)) : Tail(q)[i] = q[i + 1]
      BY <2>3, HeadTailProperties
    <3>2. <<h>> \in Seq(Frames) /\ Len(<<h>>) = 1 /\ <<h>>[1] = h /\ h = q[1] /\ Len(q) \in Nat \ {0}
      BY <2>3, <3>1, EmptySeq
    <3> DEFINE s == <<h>> \o Tail(q)
    <3>3. /\ s \in Seq(Frames) /\ Len(s) = 1 + Len(Tail(q))
          /\ \A i \in 1 .. 1 + Len(Tail(q)) : s[i] = IF i <= 1 THEN <<h>>[i] ELSE Tail(q)[i - 1]
      BY <3>1, <3>2, ConcatProperties
    <3> HIDE DEF s
    <3>4. Len(s) = Len(q)
      BY <3>1, <3>2, <3>3
    <3>5. \A i \in 1 .. Len(s) : s[i] = q[i]
      BY <3>1, <3>2, <3>3
    <3>6. s = q
      BY <2>3, <3>3, <3>4, <3>5, SeqEqual
    <3>7. <<>> \o q = q
      BY <2>3, ConcatEmptySeq
    <3> QED
      BY <3>6, <3>7 DEF s
  <2> QED
    BY <1>1, <2>1, <2>2, <2>4, <2>5 DEF D!deviceVars
<1>4. CASE ~reading /\ ReadPends /\ UNCHANGED <<packets, inbuf>>
  <2>1. irp.state # "done" /\ irp'.state # "done"
    BY <1>4 DEF IInv, Lib, ReadInv, ReadPends
  <2>2. Fetched = <<>> /\ Fetched' = <<>>
    BY <1>1, <1>4, <2>1 DEF Fetched
  <2> QED
    BY <1>1, <1>4, <2>2 DEF D!deviceVars
<1>5. CASE UNCHANGED <<irp, packets, inbuf>>
  BY <1>1, <1>5, HeldStays
<1> QED
  BY <1>2, <1>3, <1>4, <1>5 DEF tapcfg_wait_for_data, ReadFile

LEMMA HeldRead ==
    ASSUME IInv, tapcfg_read PROVE [D!DeviceNext]_(D!deviceVars)
<1>1. /\ started /\ inbuf # <<>> /\ inbuf' = <<>> /\ UNCHANGED <<opener, count, packets, irp>>
      /\ taken' = Append(taken, inbuf[1])
  BY DEF tapcfg_read
<1>2. opener = "lib" /\ irp.state # "done"
  BY <1>1 DEF IInv, Lib, BeliefInv, ReadInv
<1>3. PICK x \in Frames : inbuf = <<x>>
  BY <1>1, OneAtMost DEF IInv, Lib, HandleTypes
<1>4. PICK q \in Seq(Frames) : q = packets
  BY FetchedIs
<1>5. Fetched = <<x>> /\ Fetched' = <<>>
  <2>1. <<x>> \in Seq(Frames)
    OBVIOUS
  <2> QED
    BY <1>1, <1>2, <1>3, <2>1 DEF Fetched
<1>6. <<x>> \o q # <<>> /\ Head(<<x>> \o q) = x /\ Tail(<<x>> \o q) = q /\ <<>> \o q = q
  BY OneFirst, ConcatEmptySeq
<1>7. taken' = Append(taken, x)
  BY <1>1, <1>3
<1>8. D!HandOut
  BY <1>1, <1>2, <1>4, <1>5, <1>6, <1>7 DEF D!HandOut
<1> QED
  BY <1>8 DEF D!DeviceNext

\* A frame from the network stack: for the program, or missed.
LEMMA HeldQueue ==
    ASSUME IInv, NEW p, TransmitQueue(p), opener # "none", opener' = opener,
           UNCHANGED <<inbuf, taken>>
    PROVE  [D!DeviceNext]_(D!deviceVars)
<1>1. PICK n : n = count'
  OBVIOUS
<1>2. n \in Frames /\ count' = count + 1
  BY <1>1, MasqAssumption DEF TransmitQueue, IInv, Driver, PortTypes, Frames
<1>3. PICK f, q : f = Fetched /\ q = packets
  OBVIOUS
<1>4. f \in Seq(Frames) /\ q \in Seq(Frames)
  BY <1>3, FetchedIs
<1>5. CASE Waiting
  <2>1. opener = "lib" /\ packets = <<>> /\ packets' = <<>> /\ inbuf = <<>> /\ irp.state # "done"
        /\ Completed("done", n)
    BY <1>1, <1>5 DEF TransmitQueue, IInv, Lib, ReadInv, Waiting
  <2>2. Fetched = <<>>
    BY <2>1 DEF Fetched
  <2>3. CASE irp.state = "pending"
    <3>1. irp'.state = "done" /\ irp'.n = n
      BY <2>1, <2>3 DEF Completed
    <3>2. <<n>> \in Seq(Frames)
      BY <1>2
    <3>3. Fetched' = <<n>>
      BY <2>1, <3>1, <3>2 DEF Fetched
    <3>4. <<n>> \o <<>> = Append(<<>> \o <<>>, n)
      BY <1>2, <3>2
    <3>5. D!Arrive
      BY <1>1, <1>2, <2>1, <2>2, <3>3, <3>4 DEF D!Arrive
    <3> QED
      BY <3>5 DEF D!DeviceNext
  <2>4. CASE irp.state = "orphan"
    <3>1. irp'.state # "done"
      BY <2>1, <2>4 DEF Completed, NoRead
    <3>2. Fetched' = <<>>
      BY <2>1, <3>1 DEF Fetched
    <3>3. D!Miss
      BY <1>2, <2>1, <2>2, <3>2 DEF D!Miss
    <3> QED
      BY <3>3 DEF D!DeviceNext
  <2> QED
    BY <1>5, <2>3, <2>4 DEF Waiting
<1>6. CASE ~Waiting
  <2>1. Fetched' = f /\ (packets' = q \/ packets' = Append(q, n))
    BY <1>1, <1>3, <1>6 DEF TransmitQueue, Pushed, Fetched
  <2>2. CASE opener # "lib" \/ packets' = q
    <3>1. D!Miss
      BY <1>2, <1>3, <2>1, <2>2 DEF D!Miss
    <3> QED
      BY <3>1 DEF D!DeviceNext
  <2>3. CASE opener = "lib" /\ packets' = Append(q, n)
    <3>1. f \o Append(q, n) = Append(f \o q, n)
      <4> DEFINE s == f \o Append(q, n)
                 t == Append(f \o q, n)
      <4>1. /\ Append(q, n) \in Seq(Frames) /\ Len(Append(q, n)) = Len(q) + 1
            /\ \A i \in 1 .. Len(q) : Append(q, n)[i] = q[i]
            /\ Append(q, n)[Len(q) + 1] = n /\ Len(q) \in Nat /\ Len(f) \in Nat
        BY <1>2, <1>4, AppendProperties
      <4>2. /\ f \o q \in Seq(Frames) /\ Len(f \o q) = Len(f) + Len(q)
            /\ \A i \in 1 .. Len(f) + Len(q) : (f \o q)[i] = IF i <= Len(f) THEN f[i] ELSE q[i - Len(f)]
        BY <1>4, ConcatProperties
      <4>3. /\ s \in Seq(Frames) /\ Len(s) = Len(f) + (Len(q) + 1)
            /\ \A i \in 1 .. Len(f) + (Len(q) + 1) :
                 s[i] = IF i <= Len(f) THEN f[i] ELSE Append(q, n)[i - Len(f)]
        <5> DEFINE g == Append(q, n)
        <5>1. g \in Seq(Frames) /\ Len(g) = Len(q) + 1
          BY <4>1
        <5> HIDE DEF g
        <5>2. /\ f \o g \in Seq(Frames) /\ Len(f \o g) = Len(f) + Len(g)
              /\ \A i \in 1 .. Len(f) + Len(g) : (f \o g)[i] = IF i <= Len(f) THEN f[i] ELSE g[i - Len(f)]
          BY <1>4, <5>1, ConcatProperties
        <5> QED
          BY <5>1, <5>2, Zenon DEF g
      <4>4. /\ t \in Seq(Frames) /\ Len(t) = Len(f \o q) + 1
            /\ \A i \in 1 .. Len(f \o q) : t[i] = (f \o q)[i]
            /\ t[Len(f \o q) + 1] = n
        BY <1>2, <4>2, AppendProperties
      <4> HIDE DEF s, t
      <4>5. Len(s) = Len(t)
        BY <4>1, <4>2, <4>3, <4>4
      <4>6. ASSUME NEW i \in 1 .. Len(s) PROVE s[i] = t[i]
        <5>1. i \in Nat /\ i <= Len(f) + (Len(q) + 1)
          BY <4>1, <4>3
        <5>2. CASE i <= Len(f)
          <6>1. s[i] = f[i]
            BY <4>1, <4>3, <5>1, <5>2
          <6>2. (f \o q)[i] = f[i] /\ i \in 1 .. Len(f \o q)
            BY <4>1, <4>2, <5>1, <5>2
          <6> QED
            BY <4>4, <6>1, <6>2
        <5>3. CASE i > Len(f) /\ i <= Len(f) + Len(q)
          <6>1. i - Len(f) \in 1 .. Len(q)
            BY <4>1, <5>1, <5>3
          <6>2. s[i] = q[i - Len(f)]
            BY <4>1, <4>3, <5>1, <5>3, <6>1
          <6>3. t[i] = q[i - Len(f)]
            BY <4>1, <4>2, <4>4, <5>1, <5>3
          <6> QED
            BY <6>2, <6>3
        <5>4. CASE i = Len(f) + Len(q) + 1
          <6>1. i - Len(f) = Len(q) + 1 /\ i = Len(f \o q) + 1 /\ ~(i <= Len(f))
            BY <4>1, <4>2, <5>4
          <6> QED
            BY <4>1, <4>3, <4>4, <5>1, <6>1
        <5> QED
          BY <4>1, <5>1, <5>2, <5>3, <5>4
      <4>7. s = t
        BY <4>3, <4>4, <4>5, <4>6, SeqEqual
      <4> QED
        BY <4>7 DEF s, t
    <3>2. D!Arrive
      BY <1>1, <1>2, <1>3, <2>1, <2>3, <3>1 DEF D!Arrive
    <3> QED
      BY <3>2 DEF D!DeviceNext
  <2> QED
    BY <2>1, <2>2, <2>3
<1> QED
  BY <1>5, <1>6

LEMMA HeldWorld ==
    ASSUME IInv, World PROVE [D!DeviceNext]_(D!deviceVars)
<1>1. UNCHANGED <<inbuf, taken>>
  BY DEF World
<1>2. ASSUME NEW p \in Packets, AdapterTransmit(p) PROVE [D!DeviceNext]_(D!deviceVars)
  <2>1. opener # "none" /\ opener' = opener
    BY <1>2 DEF AdapterTransmit
  <2>2. UNCHANGED <<irp, packets, count>> \/ TransmitQueue(p)
    BY <1>2 DEF AdapterTransmit, TransmitServerArp, TransmitServerDhcp, TransmitTunArp,
       HandleIPv6NeighborDiscovery, TransmitDrop
  <2> QED
    BY <1>1, <2>1, <2>2, HeldStays, HeldQueue
<1>3. CASE InjectPacketDpc \/ OtherConfigures \/ OtherWrites
  BY <1>1, <1>3, HeldStays DEF InjectPacketDpc, OtherConfigures, OtherWrites, Write, Configures,
     SetMediaStatus, ConfigTun, ConfigPointToPoint, ConfigDhcpMasq
<1>4. CASE Cancel
  <2>1. irp.state # "done" /\ irp'.state # "done" /\ UNCHANGED <<opener, count, packets>>
    BY <1>4 DEF Cancel, Waiting, Completed, NoRead
  <2>2. Fetched' = Fetched
    BY <1>1, <2>1 DEF Fetched
  <2> QED
    BY <1>1, <2>1, <2>2 DEF D!deviceVars
<1>5. CASE OtherOpens \/ OtherCloses
  <2>1. opener # "lib" /\ opener' # "lib" /\ UNCHANGED <<irp, count>>
    BY <1>5 DEF OtherOpens, OtherCloses, Create, Close
  <2>2. Fetched' = Fetched
    BY <1>1, <2>1 DEF Fetched
  <2> QED
    BY <1>1, <2>1, <2>2 DEF D!deviceVars
<1> QED
  BY <1>2, <1>3, <1>4, <1>5 DEF World

LEMMA HeldCalls ==
    ASSUME IInv, IInv', ~CloseDue, Calls PROVE [D!DeviceNext]_(D!deviceVars)
<1>1. CASE tapcfg_init
  BY <1>1, HeldStays DEF tapcfg_init
<1>2. CASE \E short \in BOOLEAN : tapcfg_write(short)
  BY <1>2, HeldStays DEF tapcfg_write, Write
<1>3. CASE \E flags \in Flags : tapcfg_iface_set_status(flags)
  BY <1>3, HeldStays DEF tapcfg_iface_set_status, SetMediaStatus, Configures
<1>4. CASE \E i \in Ipv4s : tapcfg_iface_set_ipv4(i.addr, i.netbits)
  BY <1>4, HeldStays DEF tapcfg_iface_set_ipv4, ConfigDhcpMasq, Configures
<1>5. CASE \E size \in OptionSizes : tapcfg_iface_set_dhcp_options(size)
  BY <1>5, HeldStays DEF tapcfg_iface_set_dhcp_options, ConfigDhcpSetOpt, Configures
<1> QED
  BY <1>1, <1>2, <1>3, <1>4, <1>5, HeldStop, HeldStart, HeldWait, HeldRead DEF Calls

\* The library over its driver implements TapDevice: reads hand out the frames
\* for the program in the order they came, each once and none lost while the
\* device is open, whatever waits, stops and restarts happen.
THEOREM DeviceImplemented == Spec => ImplementsDevice
<1>1. Init => D!DeviceInit
  <2> SUFFICES ASSUME Init PROVE D!DeviceInit
    OBVIOUS
  <2>1. opener = "none" /\ count = 0 /\ inbuf = <<>> /\ irp.state = "none" /\ taken = <<>>
    BY DEF Init, TapInit, NoRead
  <2>2. Fetched = <<>>
    BY <2>1 DEF Fetched
  <2> QED
    BY <2>1, <2>2 DEF D!DeviceInit
<1>2. IInv /\ IInv' /\ [Next]_vars => [D!DeviceNext]_(D!deviceVars)
  <2> SUFFICES ASSUME IInv, IInv', [Next]_vars PROVE [D!DeviceNext]_(D!deviceVars)
    OBVIOUS
  <2>1. CASE UNCHANGED vars
    BY <2>1, HeldStays DEF vars, tapVars
  <2>2. CASE LateClose
    BY <2>2, HeldCloses DEF LateClose, CloseDue
  <2> QED
    BY <2>1, <2>2, HeldCalls, HeldWorld DEF Next
<1> QED
  BY <1>1, <1>2, LibraryInductive, PTL DEF Spec, ImplementsDevice, D!DeviceSpec

=============================================================================
