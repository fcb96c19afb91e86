CONSTANTS
  i1 = i1  i2 = i2  r1 = r1  k1 = k1  k2 = k2  v1 = v1
  Invocations = {i1, i2}
  Readers = {r1}
  Keys = {k1, k2}
  Alarms = {k1}
  Values = {v1}
  Pages = {"complete", "bounded"}
  Changes <- MCChanges
  MaxBatches = 3
  Null = Null
  Unfilled = Unfilled
  Keep = Keep
  NoRevision = NoRevision
  NoOne = NoOne
SPECIFICATION MCSpec
SYMMETRY Symmetry
INVARIANT TypeOK CleanCacheIsCurrent DelayedWritesAreFenced ProtocolInv
PROPERTY ImplementsContract
CHECK_DEADLOCK FALSE
