SPECIFICATION Spec
CONSTANTS
  c1 = c1  c2 = c2  t1 = t1  t2 = t2
  Client = {c1, c2}
  Track = {t1, t2}
  NSlots = 2
  MaxPurge = 1
  Accesses <- MCAccesses
  Used <- MCUsed
  Updated <- MCUpdated
  MaxFaults = 1
  At <- MCAt
  Ops <- MCOps
  None = None
  Local = Local
INVARIANTS TypeOK Coherent WaitersHaveHolder
