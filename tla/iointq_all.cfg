SPECIFICATION Spec
CONSTANTS
    d1 = d1
    d2 = d2
    NCpu = 2
    Dev = {d1, d2}
    NoDev = NoDev
    Isc = {1, 2}
    Cr6 <- TwoMasks
    Events = {"inter", "TSCH", "MSCH", "TPI", "stop"}
INVARIANTS TypeOK QueueOrdered InterruptSeen WakeupPassedOn
CHECK_DEADLOCK FALSE
