SPECIFICATION FairSpec
CONSTANTS
    Peers = {p1, p2}
    Producers = {a1}
    NoPeer = NoPeer
    NoProducer = NoProducer
    MaxDowns = 1
    MaxImmFaults = 1
    MaxSwitches = 1
CHECK_DEADLOCK FALSE
INVARIANTS
    FaultyIsSupervised
    WaitersAreNotified
PROPERTIES
    WaitersGoOn
    StopEnds
