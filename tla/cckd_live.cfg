SPECIFICATION FairSpecQuiet
CONSTANTS
  d1 = d1  d2 = d2  e1 = e1  e2 = e2  r1 = r1  w1 = w1  w2 = w2
  Device = {d1}
  NTracks = 3
  Entry = {e1, e2}
  Reader = {}
  Writer = {w1}
  RaDepth = 0
  RaSize = 1
  MaxVersion = 1
  Updatable = {1, 2}
  Operation = {"merge"}
  MaxCommands = 1
  MaxQueued = 3
  NoEntry = NoEntry
  NoKey = NoKey
PROPERTIES   UpdatesWritten
CHECK_DEADLOCK FALSE
