SPECIFICATION FairSpec
CONSTANTS
    d1 = d1
    d2 = d2
    NCpu = 2
    Dev = {d1, d2}
    NoDev = NoDev
    Isc = {1}
    Cr6 <- LastOfTwo
    Events = {"TSCH", "TPI"}
PROPERTY InterruptsTaken
CHECK_DEADLOCK FALSE
