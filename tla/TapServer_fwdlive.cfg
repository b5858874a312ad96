\* A forwarder with two connections, every way a peer can behave.
CONSTANTS
    Conns = {c1, c2}
    Dev = dev
    Modes = {"forwarder"}
    MaxClients = 2
    BufSize = 4096
    PeerMoves = {"rst", "fin", "stall"}
    PeerLens = {4096}
    DevLens = {4096}
    MaxPeerFrames = 1
    MaxDevFrames = 0
SPECIFICATION FairSpec
PROPERTIES StopReturns
