SPECIFICATION FairSpec
CONSTANTS
    c1 = c1
    c2 = c2
    t1 = t1
    t2 = t2
    Cpu = {c1, c2}
    Thread = {t1, t2}
    Orbs <- OneOrb
    MaxCcw = 1
    Instr = {"SSCH", "TSCH", "HSCH", "CSCH", "RSCH", "XSCH"}
INVARIANT BusyWithOneProgram
PROPERTIES EndingStatusKept ProgramEnds ResumeTakesEffect
CHECK_DEADLOCK FALSE
