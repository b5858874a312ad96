---------------------------- MODULE MCTuntapDriver ----------------------------
EXTENDS TuntapDriver

\* IP needs two entries of the table of protocols, IPv6 one; a third protocol
\* wants a type of IP, and a fourth another kind of description.
DemuxesDef ==
  {[proto |-> "ip", types |-> {2048, 2054}, etype2 |-> TRUE],
   [proto |-> "ip6", types |-> {34525}, etype2 |-> TRUE],
   [proto |-> "arp", types |-> {2054}, etype2 |-> TRUE],
   [proto |-> "llc", types |-> {1500}, etype2 |-> FALSE]}
=============================================================================
