SPECIFICATION FairSpec
CONSTANTS
    c1 = c1
    c2 = c2
    t1 = t1
    t2 = t2
    Cpu = {c1}
    Thread = {t1, t2}
    Orbs <- OneOrb
    MaxCcw = 1
    Instr = {"SSCH", "TSCH", "HSCH", "HSCH startpending"}
PROPERTY HaltCompletes
CHECK_DEADLOCK FALSE
