\* A TAP server or client with two connections.
CONSTANTS
    Conns = {c1, c2}
    Dev = dev
    Modes = {"server", "client"}
    MaxClients = 2
    BufSize = 4096
    PeerMoves = {"rst"}
    PeerLens = {4096, 4097}
    DevLens = {4096}
    MaxPeerFrames = 1
    MaxDevFrames = 1
SYMMETRY Symmetry
SPECIFICATION SpecH
INVARIANTS TypeOK MutexInv IndexInv OutFramed InFramed
PROPERTIES ImplementsRelay
