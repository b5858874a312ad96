\* A forwarder with three connections for two places.
CONSTANTS
    Conns = {c1, c2, c3}
    Dev = dev
    Modes = {"forwarder"}
    MaxClients = 2
    BufSize = 4096
    PeerMoves = {"fin"}
    PeerLens = {4096}
    DevLens = {4096}
    MaxPeerFrames = 1
    MaxDevFrames = 0
SYMMETRY Symmetry
SPECIFICATION SpecH
INVARIANTS AcceptFits DispatchComplete
PROPERTIES ImplementsRelay OnlyFaultyLeave
