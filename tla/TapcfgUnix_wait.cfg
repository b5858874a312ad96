\* One interface.
CONSTANTS
    Names = {tap0}
    Persistent = {}
    Flags = {{}, {v4}}
    NoName = noname
    Macs = {m1, m2}
    NoMac = nomac
    Mtus = {67, 4074, 4075}
    Lens = {4096, 4097}
    Counts = {4096, 100}
    BufSize = 4096
    MaxFd = 3
    MaxFrames = 2
SPECIFICATION Spec
INVARIANTS WaitTells
