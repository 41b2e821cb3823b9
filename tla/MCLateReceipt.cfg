SPECIFICATION FairSpec
CONSTANTS
    r1 = r1  r2 = r2  r3 = r3  w1 = w1  a1 = a1  a2 = a2  k1 = k1  k2 = k2
    i1 = i1  d1 = d1  d2 = d2  t1 = t1  t2 = t2  t3 = t3
    Ids = {r1}
    Wallets = {w1}
    Accounts = {a1}
    WalletOf <- OneAccount
    Keys = {k1}
    Images = {i1}
    Texts = {"text"}
    Payloads <- OneBody
    Workers = {d1}
    TxIds = {t1, t2}
    Strays <- NoStrays
    ApiChainID = 1
    DeployerChainID = 1
    DeploymentMode = "live"
    TicksPerSecond = 2
    LeadTime = 1
    None = None
    MaxTime = 0
    MaxFaults = 1
PROPERTIES
    DeployedEventuallyActive
