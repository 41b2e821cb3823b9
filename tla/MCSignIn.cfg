\* Two wallets, two messages and two requests at a time.
CONSTANTS
    w1 = w1
    w2 = w2
    e1 = e1
    e2 = e2
    n1 = n1
    n2 = n2
    s1 = s1
    s2 = s2
    Wallets = {w1, w2}
    Emails = {e1}
    Keys = {}
    Nonces = {n1, n2}
    Slots = {s1, s2}
    MessageTTL = 1
    AccessTokenTTL = 1
    MaxTime = 1
    MaxFaults = 1
    None = None
SYMMETRY Symmetric
SPECIFICATION Spec
INVARIANTS
    TypeOK
    OneTokenPerMessage
    TokenNamesRecipient
PROPERTIES
    ConsumedMessageHonoured
CHECK_DEADLOCK FALSE
