\* Start-up, shutdown and failures of both programs in every order.
CONSTANTS
    h1 = h1
    h2 = h2
    Requests = {h1, h2}
    MaxFaults = 2
SPECIFICATION FairSpec
INVARIANTS
    TypeOK
    OrderlyRelease
    NothingLeftOpen
PROPERTIES
    SignalEndsProcess
    NoHalfDeadProcess
