\* The packet path: two packets, two reads and queues of two, one program.
CONSTANTS
    Packets = {p1, p2}
    Irps = {r1, r2}
    Handles = {h1}
    None = none
    PacketCap = 2
    IrpCap = 2
    MediaStatus = {FALSE}
    MaxPower = 1
SPECIFICATION Spec
SYMMETRY Symmetry
INVARIANTS TypeOK CompletedOnce CancelCompletes IdlePairsAreLate FreedMeansIdle NothingLeaks
PROPERTIES ImplementsPort
