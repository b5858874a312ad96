\* Two frames, two bad requests of which one is forgiven, one inject slot.
CONSTANTS
    Packets <- MCPackets
    Tunnels <- MCTunnels
    Servers <- MCServers
    OptionSizes = {235, 257}
    MediaStatus = {FALSE}
    AddrBits = 3
    PacketCap = 1
    InjectCap = 1
    MaxFrames = 2
    MaxBad = 2
    BAD_DHCPREQUEST_NAK_THRESHOLD = 1
    Registries <- MCRegistries
    Guid = "g1"
    Names = {"tap", "old", "nope"}
    NoName = "NULL"
    Flags = {0, 1}
    Ipv4s <- MCIpv4s
SPECIFICATION Spec
INVARIANTS TypeOK HandleCoherent ReadOutstanding RepliesSound
PROPERTIES ImplementsDevice
