---------------------------- MODULE MCTapcfgWindows ----------------------------
EXTENDS TapcfgWindows

Key(guid, readable, tap) == [guid |-> guid, readable |-> readable, tap |-> tap]
Link(name, guid, readable) == [name |-> name, guid |-> guid, readable |-> readable]

\* Two adapters, of which the first has two links, among other network adapters;
\* none that can be read.
MCRegistries ==
  { [taps |-> <<Key("g2", TRUE, TRUE), Key("g3", TRUE, FALSE), Key("g1", TRUE, TRUE)>>,
     panel |-> <<Link("old", "g2", TRUE), Link("older", "g2", TRUE), Link("eth", "g3", TRUE),
                 Link("tap", "g1", TRUE)>>],
    [taps |-> <<Key("g1", TRUE, TRUE), Key("g2", FALSE, TRUE)>>,
     panel |-> <<Link("tap", "g1", FALSE)>>] }

Arp(source, target, request) ==
  [kind |-> "arp", source |-> source, target |-> target, request |-> request]
Boot(dest, options, ciaddr, sane, fromUs, bootrequest) ==
  [kind |-> "dhcp", dest |-> dest, short |-> FALSE, options |-> options,
   ciaddr |-> ciaddr, sane |-> sane, fromUs |-> fromUs, bootrequest |-> bootrequest]
Discover == <<DHCP_MSG_TYPE, 1, DHCPDISCOVER, DHCP_END>>
Request == <<DHCP_PAD, 50, 2, DHCP_MSG_TYPE, 1, DHCP_MSG_TYPE, 1, DHCPREQUEST>>

MCPackets ==
  { Arp(2, 6, TRUE), Arp(2, 2, TRUE),
    Boot(BroadcastMAC, Discover, 0, TRUE, TRUE, TRUE),
    Boot(BroadcastMAC, Request, 0, TRUE, TRUE, TRUE),
    Boot(2, Request, 2, TRUE, TRUE, TRUE),
    Boot(BroadcastMAC, <<DHCP_END>>, 0, TRUE, TRUE, TRUE),
    Boot(BroadcastMAC, Request, 0, TRUE, FALSE, TRUE),
    [kind |-> "ipv4", dest |-> 1, short |-> FALSE],
    [kind |-> "ipv6", solicits |-> TRUE, short |-> FALSE] }

MCTunnels == { [localIP |-> 2, network |-> 4, netmask |-> 1],
               [localIP |-> 2, network |-> 6, netmask |-> 1] }
MCServers == { [addr |-> 2, server |-> 6] }
MCIpv4s == { [addr |-> 2, netbits |-> 1], [addr |-> 5, netbits |-> 3] }
=============================================================================
