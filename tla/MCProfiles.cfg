\* Two wallets and two e-mails, so that requests can swap them, one image that
\* every profile may name, two requests at a time and one failure anywhere.
CONSTANTS
    u1 = u1
    u2 = u2
    w1 = w1
    w2 = w2
    e1 = e1
    e2 = e2
    k1 = k1
    s1 = s1
    s2 = s2
    Users = {u1, u2}
    Wallets = {w1, w2}
    Emails = {e1, e2}
    Keys = {k1}
    Slots = {s1, s2}
    MaxFaults = 1
    Keep = Keep
    None = None
SYMMETRY Symmetric
SPECIFICATION Spec
INVARIANTS
    TypeOK
    UncontendedImageExists
    UploadKeptUntilCommit
    NoSilentLeak
    OneAccount
PROPERTIES
    ImplementsRegistry
