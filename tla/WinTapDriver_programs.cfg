\* Three programs that open the device one after the other or at once.
CONSTANTS
    Packets = {p1, p2}
    Irps = {r1}
    Handles = {h1, h2, h3}
    None = none
    PacketCap = 2
    IrpCap = 2
    MediaStatus = {FALSE}
    MaxPower = 0
SPECIFICATION Spec
SYMMETRY Symmetry
INVARIANTS OneOwner StaleOnlyIfLate
