SPECIFICATION SnSpec
CONSTANTS
    Lens <- MCLens
    Ihls = {4, 5, 6}
    Ports = {7000, 80}
    KnockPorts = {7000}
    Interfaces = {1, 2}
INVARIANTS
    SnTypeOK
    ReadsWithinPacket
    VerdictIsRight
