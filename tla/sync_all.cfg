SPECIFICATION FairSpec
CONSTANTS
    c1 = c1
    c2 = c2
    c3 = c3
    Cpu = {c1, c2, c3}
    NumProcs = {1, 3}
    Events = {"wait", "stop", "io", "configure", "deconfigure"}
INVARIANTS TypeOK Exclusive WaitersReleased
PROPERTY SyncCompletes
CHECK_DEADLOCK FALSE
