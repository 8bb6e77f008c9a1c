CONSTANTS
    seed = seed  p = p
    Addrs = {seed, p}
    NoAddr = NoAddr
    Seeds = {seed}
    Priority = {seed}
    Exclusives <- MCExclusives
    Slots = {s1, s2}
    WhiteLimit = 1
    GrayLimit = 1
    Reconnect = 2
    PriorityReconnect = 1
    Ban = 3
    MaxFailed = 2
SYMMETRY SlotSymmetry
SPECIFICATION Spec
INVARIANTS
    NeverAsleep
    DiskExact
