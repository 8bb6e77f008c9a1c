CONSTANTS
    seed = seed  p = p
    Addrs = {p}
    NoAddr = NoAddr
    Seeds = {}
    Priority = {}
    Exclusives <- MCNoExclusives
    Slots = {s1, s2}
    WhiteLimit = 1
    GrayLimit = 1
    Reconnect = 2
    PriorityReconnect = 1
    Ban = 3
    MaxFailed = 2
SPECIFICATION Spec
PROPERTIES
    BanKept
