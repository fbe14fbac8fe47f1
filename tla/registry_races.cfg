SPECIFICATION RegistrySpec
CONSTANTS
    k1 = k1  k2 = k2  n1 = n1  n2 = n2  c1 = c1  c2 = c2  ip1 = ip1  ip2 = ip2
    NoKey = NoKey  NoRequest = NoRequest
    Keys = {k1, k2}  Names = {n1, n2}  Conns = {c1, c2}  Ips = {ip1, ip2}
    Offers = {}  Excesses = {}  Receipts = {}  HalfWord = 4  DbFaults = TRUE
    NamesAtOpen <- EmptyNames
    OffersAtOpen <- NoOffers
    IpOf <- MCIpOf
    Requests <- MCRequests
    Traffic <- TwoRivals
    Word = 64  TicksPerSec = 1  AuthMaxAge = 1
    ReadMax = 1  ReadWindow = 9  WriteMax = 1  WriteWindow = 0
    Cooldown = 1  MapCap = 99  MaxClock = 1
INVARIANTS ServerTypeOK OneActiveName NoDoubleService
PROPERTIES OnlyOwnerReleases CooldownBlocks
CHECK_DEADLOCK FALSE
