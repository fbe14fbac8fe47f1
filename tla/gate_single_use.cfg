SPECIFICATION GateSpec
CONSTANTS
    k1 = k1  k2 = k2  ip1 = ip1  ip2 = ip2  NoKey = NoKey
    Keys = {}
    Ips = {}
    AuthEvents <- MCEvents
    Word = 64  TicksPerSec = 2
    AuthMaxAge = 1
    ReadMax = 1  ReadWindow = 1  WriteMax = 1  WriteWindow = 1
    Cooldown = 1
    Buckets = {}
    MaxChanges = 2
    MapCap = 9
    MaxClock = 14
INVARIANT SingleUse
CHECK_DEADLOCK FALSE
