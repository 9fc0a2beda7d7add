SPECIFICATION Spec
CONSTANTS
    c1 = c1
    c2 = c2
    t1 = t1
    t2 = t2
    Cpu = {c1}
    Thread = {t1}
    Orbs <- TwoOrbs
    MaxCcw = 1
    Instr = {"SSCH", "TSCH", "HSCH", "CSCH", "RSCH", "XSCH", "RCHP", "ATTN", "SSCH suspended", "CSCH suspended", "HSCH startpending"}
INVARIANTS TypeOK InterruptSeen StatusReported SuspendedHasThread
CHECK_DEADLOCK FALSE
