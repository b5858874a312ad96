\* One connection, every way a peer can behave.
CONSTANTS
    Conns = {c1}
    Dev = dev
    Modes = {"server", "client"}
    MaxClients = 1
    BufSize = 4096
    PeerMoves = {"rst", "fin", "stall"}
    PeerLens = {0, 4096}
    DevLens = {4096}
    MaxPeerFrames = 2
    MaxDevFrames = 2
SPECIFICATION FairSpec
PROPERTIES StopReturns FailureStopsThreads
