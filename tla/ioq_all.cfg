SPECIFICATION Spec
CONSTANTS
    d1 = d1
    d2 = d2
    d3 = d3
    c1 = c1
    c2 = c2
    t1 = t1
    t2 = t2
    t3 = t3
    Dev = {d1, d2}
    NoDev = NoDev
    Cpu = {c1, c2}
    Thread = {t1, t2}
    Priority <- EqualPair
    Limits = {0, 1, 2}
    IdleSpare = 0
    CreateMayFail = TRUE
    Instr = {"XSCH", "HSCH", "RCHP"}
SYMMETRY Symmetry
INVARIANTS TypeOK ThreadCounts NoStrandedRequest IdleWithinLimit
CHECK_DEADLOCK FALSE
