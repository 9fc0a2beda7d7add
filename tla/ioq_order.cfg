SPECIFICATION FairSpec
CONSTANTS
    d1 = d1
    d2 = d2
    d3 = d3
    c1 = c1
    c2 = c2
    t1 = t1
    t2 = t2
    t3 = t3
    Dev = {d1, d2, d3}
    NoDev = NoDev
    Cpu = {c1}
    Thread = {t1, t2}
    Priority <- TwoUrgent
    Limits = {2}
    IdleSpare = 0
    CreateMayFail = FALSE
    Instr = {"XSCH"}

PROPERTIES UrgentServed ImplementsStartQueue
INVARIANTS RequestHeldOnce
