SPECIFICATION Spec
CONSTANTS
    k1 = k1  k2 = k2  k3 = k3  k4 = k4  n1 = n1  n2 = n2  c1 = c1  c2 = c2
    ip1 = ip1  ip2 = ip2  x1 = x1  x2 = x2  x3 = x3  x4 = x4
    NoKey = NoKey  NoRequest = NoRequest
    Keys = {k1, k2, k3, k4}  Names = {n1, n2}  Conns = {c1, c2}  Ips = {ip1, ip2}
    Excesses = {x1, x2, x3, x4}  HalfWord = 4  DbFaults = TRUE
    NumEndpoints = 2
    Receipts <- RefusalReceipts
    Offers <- RefusalOffers
    NamesAtOpen <- NamesHuge
    OffersAtOpen <- RefusalsAtOpen
    IpOf <- MCIpOf
    Requests <- RefusalRequests
    Traffic <- RefusalTraffic
    Word = 64  TicksPerSec = 1  AuthMaxAge = 9
    ReadMax = 1  ReadWindow = 0  WriteMax = 1  WriteWindow = 9
    Cooldown = 1  MapCap = 99  MaxClock = 0
    MinConf = 2  MaxTtl = 1  Grace = 0
    TipAtOpen = 2  MaxTip = 2  MaxReorg = 1  Lag = 0  RpcBlocks = 1
    MinedAtOpen <- AllMined
INVARIANTS TypeOK PaidAndConfirmed
PROPERTIES RevokedMeansNotSold ConsumedIsTerminal
CHECK_DEADLOCK FALSE
