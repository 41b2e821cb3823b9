SPECIFICATION Spec
CONSTANTS
    r1 = r1  r2 = r2  r3 = r3  w1 = w1  a1 = a1  a2 = a2  k1 = k1  k2 = k2
    i1 = i1  d1 = d1  d2 = d2  t1 = t1  t2 = t2  t3 = t3
    Ids = {r1, r2}
    Wallets = {w1}
    Accounts = {a1, a2}
    WalletOf <- TwoAccounts
    Keys = {k1}
    Images = {i1}
    Texts = {"text"}
    Payloads <- TwoBodies
    Workers = {d1}
    TxIds = {}
    Strays <- NoStrays
    ApiChainID = 1
    DeployerChainID = 1
    DeploymentMode = "stub"
    TicksPerSecond = 2
    LeadTime = 1
    None = None
    MaxTime = 2
    MaxFaults = 1
SYMMETRY RequestSymmetry
INVARIANTS
    IdempotentCreate
    NoOrphanedCampaign
    ReplayNotRefused
    AcceptedCampaignHasTask
PROPERTIES
    ImplementsLifecycle
