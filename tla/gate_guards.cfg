SPECIFICATION GateSpec
CONSTANTS
    k1 = k1  k2 = k2  ip1 = ip1  ip2 = ip2  NoKey = NoKey
    Keys = {k1}
    Ips = {ip1}
    AuthEvents <- MCEvents
    Word = 64  TicksPerSec = 2
    AuthMaxAge = 1
    ReadMax = 1  ReadWindow = 2  WriteMax = 1  WriteWindow = 1
    Cooldown = 1
    Buckets = {"reg"}
    MaxChanges = 2
    MapCap = 2
    MaxClock = 14
INVARIANTS GateTypeOK ReplayedOnlyFromFirstSecond WriteBudget CooldownKept
CHECK_DEADLOCK FALSE
