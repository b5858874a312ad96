\* A new interface and a persistent one.
CONSTANTS
    Names = {tap0, tap1}
    Persistent = {tap1}
    Flags = {{}, {v4}}
    NoName = noname
    Macs = {m1, m2}
    NoMac = nomac
    Mtus = {67, 4074, 4075}
    Lens = {4096, 4097}
    Counts = {4096, 100}
    BufSize = 4096
    MaxFd = 3
    MaxFrames = 2
SPECIFICATION Spec
INVARIANTS TypeOK HandleCoherent HandleMirrors FramesWhole
PROPERTIES LeavesOthersAlone ImplementsDevice
