\* The start of a TAP server: what main does with the name of the interface.
CONSTANTS
    Conns = {c1}
    Dev = dev
    Modes = {"server", "client"}
    MaxClients = 1
    BufSize = 4096
    PeerMoves = {"rst"}
    PeerLens = {4096}
    DevLens = {4096}
    MaxPeerFrames = 1
    MaxDevFrames = 1
SPECIFICATION Spec
INVARIANTS NothingLentIsFreed
