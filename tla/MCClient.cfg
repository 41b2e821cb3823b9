\* Two consumers, three connections (two drops) and one fault: every
\* interleaving of the loop, Close, the consumers and the broker.
CONSTANTS
    c1 = c1
    c2 = c2
    Consumers <- MCConsumers
    MaxLinks = 3
    MaxFaults = 1
SPECIFICATION FairSpec
INVARIANTS
    TypeOK
    NoDanglingConnection
    NoLostWakeup
PROPERTIES
    ShutdownCompletes
    ConsumerRecovers
