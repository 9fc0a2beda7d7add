SPECIFICATION SpecQuiet
CONSTANTS
  d1 = d1  d2 = d2  e1 = e1  e2 = e2  r1 = r1  w1 = w1  w2 = w2
  Device = {d1}
  NTracks = 3
  Entry = {e1, e2}
  Reader = {r1}
  Writer = {w1}
  RaDepth = 1
  RaSize = 1
  MaxVersion = 1
  Updatable = {1}
  Operation = {"sf", "merge", "base", "close"}
  MaxCommands = 1
  MaxQueued = 3
  NoEntry = NoEntry
  NoKey = NoKey
INVARIANTS TypeOK OneImage WritesCounted FileWorkAlone
PROPERTY OneCopy
SYMMETRY EntrySymmetry
CHECK_DEADLOCK FALSE
