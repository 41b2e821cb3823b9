\* One account, one image and two requests at a time; nothing fails.
CONSTANTS
    u1 = u1
    u2 = u2
    w1 = w1
    w2 = w2
    e1 = e1
    e2 = e2
    k1 = k1
    s1 = s1
    s2 = s2
    Users = {u1}
    Wallets = {w1}
    Emails = {e1}
    Keys = {k1}
    Slots = {s1, s2}
    MaxFaults = 0
    Keep = Keep
    None = None
SPECIFICATION Spec
INVARIANTS
    ReferencedImageExists
