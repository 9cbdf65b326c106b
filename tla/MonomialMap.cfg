CONSTANTS
  k1 = k1  k2 = k2  k3 = k3  t1 = t1  t2 = t2
  Threads = {t1, t2}
  Queriers = {t1, t2}
  Inserters = {t1, t2}
  Keys <- KeysDef
  Hash <- HashDef
  ToInsert <- KeysDef
  Pairs <- PairsDef
  SizeMax = 15
  MaxClears = 1
  NoThread = NoThread  NoKey = NoKey  NoReader = NoReader
SYMMETRY Symmetry
CONSTRAINT OneEntryOnceCleared
SPECIFICATION Spec
INVARIANTS TypeOK LoadBounded NodesSynchronised EntriesAreFound
PROPERTIES KeepsPromises
